---- MODULE Spec2Model ----
(***************************************************************************)
(* The ingestion pipeline of italian-law-mcp as a state machine: the       *)
(* rate-limited session client (scripts/lib/fetcher.ts), the article-by-   *)
(* article crawl of one Act (fetchAllArticles) and the census-driven       *)
(* orchestrator (scripts/ingest.ts, main / ingestAct / updateCensus).      *)
(*                                                                         *)
(* Time.  The program reads the wall clock only through Date.now() and     *)
(* only to compare it with lastRequestTime, and it waits only on timers    *)
(* (setTimeout) and on responses.  All instants are therefore kept         *)
(* relative to the current instant: Date.now() is 0, lastRequestTime is    *)
(* the (non-positive) offset of the last gate passage, saturating at       *)
(* -MIN_DELAY_MS (anything older passes the gate alike), and a timer is    *)
(* the time left until it fires.  Tick moves the current instant to the    *)
(* next timer that is due; handlers take no time.                          *)
(*                                                                         *)
(* Text.  A string is a sequence of one-character strings, so that split,  *)
(* startsWith and join are computed as the code computes them.             *)
(***************************************************************************)
EXTENDS Integers, Sequences, FiniteSets, TLC

\* ---------------------------------------------------------------- constants

MIN_DELAY_MS == 150
ARTICLE_CONCURRENCY == 4
maxRetries == 3
MinBodyLength == 100
PauseMs == 2000
CheckpointEvery == 10
ContextChars == 120

\* ------------------------------------------------------------------- bounds

\* Largest number of article URLs a landing page of the model lists.
MaxUrls == 5
\* Number of Acts crawled one after the other in the session specification.
MaxCrawls == 2
\* Number of Acts of the census in the orchestrator specification.
MaxActs == 2
MaxLimit == 2
MaxDirectives == 3
MaxProvisions == 2
MaxLexemes == 3

\* ------------------------------------------------------------------ helpers

Max(a, b) == IF a >= b THEN a ELSE b
Min(a, b) == IF a <= b THEN a ELSE b

RECURSIVE Pow2(_)
Pow2(n) == IF n = 0 THEN 1 ELSE 2 * Pow2(n - 1)

Range(s) == {s[i] : i \in 1..Len(s)}

\* Math.pow(2, attempt + 1) * 1000
Backoff(attempt) == Pow2(attempt + 1) * 1000

\* ------------------------------------------------------------------ strings

\* Index of the first occurrence of character ch in s, 0 when absent.
RECURSIVE IndexOfFrom(_, _, _)
IndexOfFrom(s, ch, i) ==
    IF i > Len(s) THEN 0
    ELSE IF s[i] = ch THEN i
    ELSE IndexOfFrom(s, ch, i + 1)

\* s.split(ch)[0]
SplitFirst(s, ch) ==
    LET k == IndexOfFrom(s, ch, 1)
    IN  IF k = 0 THEN s ELSE SubSeq(s, 1, k - 1)

\* s.startsWith(p)
StartsWith(s, p) ==
    /\ Len(s) >= Len(p)
    /\ SubSeq(s, 1, Len(p)) = p

\* parts.join(sep)
RECURSIVE Join(_, _)
Join(parts, sep) ==
    IF Len(parts) = 0 THEN << >>
    ELSE IF Len(parts) = 1 THEN parts[1]
    ELSE parts[1] \o sep \o Join(Tail(parts), sep)

\* ------------------------------------------------------------ cookie store

StoreCookieByPrefix(store, sc) ==
    LET name == SplitFirst(sc, "=")
    IN  Append(SelectSeq(store, LAMBDA c : ~StartsWith(c, name)),
               SplitFirst(sc, ";"))

\* One set-cookie header of a response: the stored cookie of the same name
\* is dropped and the header's name=value part is appended.
StoreCookie(store, sc) ==
    LET name == SplitFirst(sc, "=")
    IN  Append(SelectSeq(store, LAMBDA c : ~StartsWith(c, name \o <<"=">>)),
               SplitFirst(sc, ";"))

\* for (const sc of setCookies) { ... }
RECURSIVE StoreCookies(_, _)
StoreCookies(store, setCookies) ==
    IF Len(setCookies) = 0 THEN store
    ELSE StoreCookies(StoreCookie(store, Head(setCookies)), Tail(setCookies))

\* headers['Cookie'], the empty string when no Cookie header is attached.
CookieHeader(store) ==
    IF Len(store) > 0 THEN Join(store, <<";", " ">>) ELSE << >>

\* ---------------------------------------------------------------- the state

VARIABLES
    env,              \* the world: census attributes, CLI arguments, the site
    lastRequestTime,  \* fetcher.ts: let lastRequestTime (relative, see above)
    sessionCookies,   \* fetcher.ts: let sessionCookies
    callers,          \* the pending fetchWithSession calls, one per batch slot
    crawl,            \* the frame of fetchAllArticles
    run,              \* the frame of main
    census,           \* main: const census (the census record in memory)
    seeds,            \* data/seed/*.json
    censusDisk,       \* data/census.json
    wire,             \* history: what went over the wire
    audit,            \* history: what the run has done to each Act
    call              \* the frame of a library function called on its own

vars == << env, lastRequestTime, sessionCookies, callers, crawl, run, census,
           seeds, censusDisk, wire, audit, call >>

Slots == 1..ARTICLE_CONCURRENCY

\* The URL of the landing page; article URLs are 1, 2, ... in the order
\* extractArticleUrls returns them.
LandingUrl == 0

\* -------------------------------------------------------------- the server

\* The character that marks a cookie value as issued during the crawl that
\* is the n-th of the run (a server issues fresh session values).
CrawlChar(n) == ToString(n)

\* The texts of the set-cookie headers, as the server of crawl n sends
\* them.
RECURSIVE SetCookieTexts(_, _)
SetCookieTexts(ts, n) ==
    IF Len(ts) = 0 THEN << >>
    ELSE LET SetCookieText(t) ==
                 t.name \o <<"=">> \o <<CrawlChar(n)>> \o t.v
                     \o (IF t.attrs THEN <<";", " ", "P">> ELSE << >>)
         IN  <<SetCookieText(Head(ts))>> \o SetCookieTexts(Tail(ts), n)

\* What the history keeps of the same headers: the cookie pairs they set.
RECURSIVE SetPairs(_, _, _)
SetPairs(jar, ts, n) ==
    IF Len(ts) = 0 THEN jar
    ELSE LET t == Head(ts)
         IN  SetPairs({p \in jar : p[1] # t.name}
                          \cup {<<t.name, <<CrawlChar(n)>> \o t.v>>},
                      Tail(ts), n)

\* ------------------------------------------------------- fetchWithSession


IdleCaller ==
    [pc |-> "idle", url |-> LandingUrl, attempt |-> 0, timer |-> -1,
     nreq |-> 0, lastStatus |-> 0,
     res |-> [kind |-> "none", status |-> 0, len |-> 0]]


\* rateLimit() up to its await, for a call made at the current instant with
\* lastRequestTime = lrt: the caller either passes the gate at once, setting
\* lastRequestTime, or sleeps for the rest of the delay.
RateLimitEnter(c, lrt) ==
    LET now == 0
        elapsed == now - lrt
    IN  IF elapsed < MIN_DELAY_MS
        THEN [caller |-> [c EXCEPT !.pc = "rlSleep",
                                   !.timer = MIN_DELAY_MS - elapsed],
              lrt |-> lrt]
        ELSE [caller |-> [c EXCEPT !.pc = "rlDone"], lrt |-> now]

\* batch.map(async url => fetchWithSession(url) ...): the calls are started
\* one after the other, each running up to its first await.
RECURSIVE StartCallsFrom(_, _, _, _)
StartCallsFrom(k, urls, cs, lrt) ==
    IF k > Len(urls) THEN [callers |-> cs, lrt |-> lrt]
    ELSE LET r == RateLimitEnter(
                      [IdleCaller EXCEPT !.pc = "called", !.url = urls[k]], lrt)
         IN  StartCallsFrom(k + 1, urls, [cs EXCEPT ![k] = r.caller], r.lrt)

StartCalls(urls, lrt) ==
    StartCallsFrom(1, urls, [s \in Slots |-> IdleCaller], lrt)

\* response.status === 429 || response.status >= 500
Retryable(status) == status = 429 \/ status >= 500

\* const response = await fetch(url, ...): the request leaves now and its
\* answer is due after the latency.
SendRequest(c, latency) ==
    [c EXCEPT !.pc = "inflight", !.timer = latency, !.nreq = @ + 1]

OnResponseOneMore(c, r) ==
    LET seen == [c EXCEPT !.lastStatus = r.status, !.timer = -1]
    IN  IF Retryable(r.status) /\ c.attempt <= maxRetries
        THEN [seen EXCEPT !.pc = "backoff", !.timer = Backoff(c.attempt)]
        ELSE [seen EXCEPT !.pc = "done", !.res = [kind |-> "returned", status |-> r.status,
                                   len |-> r.len]]

\* The loop body of fetchWithSession after a response has arrived.
OnResponse(c, r) ==
    LET seen == [c EXCEPT !.lastStatus = r.status, !.timer = -1]
    IN  IF Retryable(r.status) /\ c.attempt < maxRetries
        THEN [seen EXCEPT !.pc = "backoff", !.timer = Backoff(c.attempt)]
        ELSE [seen EXCEPT !.pc = "done", !.res = [kind |-> "returned", status |-> r.status,
                                   len |-> r.len]]

\* fetch() rejects: nothing in fetchWithSession catches it.
OnReject(c) ==
    [c EXCEPT !.pc = "done", !.timer = -1,
              !.res = [kind |-> "threw", status |-> 0, len |-> 0]]

\* What the history records when a request leaves: the gap to the request
\* before it (saturating at MIN_DELAY_MS), and the request itself.
Dispatched(w, law, cookie) ==
    [w EXCEPT !.dispatchGap = 0 - w.lastDispatch,
              !.lastDispatch = 0,
              !.sent = [crawlNo |-> w.crawlNo, cookie |-> cookie,
                        jar |-> w.jar],
              !.requested = @ \cup {law}]

\* The timer of rateLimit fires: lastRequestTime = Date.now(), and the call
\* goes on to its first request.
RateLimitWake(s) ==
    /\ callers[s].pc = "rlSleep"
    /\ callers[s].timer = 0
    /\ lastRequestTime' = 0
    /\ callers' = [callers EXCEPT ![s].pc = "rlDone", ![s].timer = -1]
    /\ UNCHANGED << env, call, sessionCookies, crawl, run, census, seeds,
                    censusDisk, wire, audit >>

\* The first request of a call, once rateLimit() has returned.
Dispatch(s) ==
    /\ callers[s].pc = "rlDone"
    /\ \E latency \in env.latencies :
           callers' = [callers EXCEPT ![s] = SendRequest(@, latency)]
    /\ wire' = Dispatched(wire, crawl.law, CookieHeader(sessionCookies))
    /\ UNCHANGED << env, call, lastRequestTime, sessionCookies, crawl, run,
                    census,
                    seeds, censusDisk, audit >>

\* A request is answered, or fails without an answer.
Respond(s) ==
    /\ callers[s].pc = "inflight"
    /\ callers[s].timer = 0
    /\ \E r \in env.responses[crawl.law][callers[s].url] :
           IF r.net
           THEN /\ callers' = [callers EXCEPT ![s] = OnReject(@)]
                /\ UNCHANGED << sessionCookies, wire >>
           ELSE /\ sessionCookies' =
                       StoreCookies(sessionCookies,
                                    SetCookieTexts(r.cookies, wire.crawlNo))
                /\ wire' = [wire EXCEPT
                       !.jar = SetPairs(@, r.cookies, wire.crawlNo),
                       !.cookiesSetIn = IF Len(r.cookies) > 0
                                        THEN @ \cup {wire.crawlNo} ELSE @,
                       !.overwrote =
                           \/ @
                           \/ \E k \in 1..Len(r.cookies) : \E p \in wire.jar :
                                  /\ p[1] = r.cookies[k].name
                                  /\ p[2] # <<CrawlChar(wire.crawlNo)>>
                                               \o r.cookies[k].v,
                       !.usable =
                           IF /\ callers[s].url # LandingUrl
                              /\ r.status = 200
                              /\ r.len > MinBodyLength
                           THEN @ \cup {callers[s].url} ELSE @]
                /\ callers' = [callers EXCEPT ![s] = OnResponse(@, r)]
    /\ UNCHANGED << env, call, lastRequestTime, crawl, run, census, seeds,
                    censusDisk, audit >>

\* The backoff timer fires: continue, i.e. the next attempt's request.
BackoffExpire(s) ==
    /\ callers[s].pc = "backoff"
    /\ callers[s].timer = 0
    /\ \E latency \in env.latencies :
           callers' = [callers EXCEPT
                          ![s] = SendRequest([@ EXCEPT !.attempt = @ + 1],
                                             latency)]
    /\ wire' = Dispatched(wire, crawl.law, CookieHeader(sessionCookies))
    /\ UNCHANGED << env, call, lastRequestTime, sessionCookies, crawl, run,
                    census,
                    seeds, censusDisk, audit >>

\* ------------------------------------------------------------------- census

\* census.laws.filter(l => l.ingested).length
RECURSIVE CountIngested(_)
CountIngested(laws) ==
    IF Len(laws) = 0 THEN 0
    ELSE (IF Head(laws).ingested THEN 1 ELSE 0) + CountIngested(Tail(laws))

\* census.laws.find(l => l.id === lawId): its index, 0 when there is none.
RECURSIVE FindLaw(_, _, _)
FindLaw(attrs, lawId, k) ==
    IF k > Len(attrs) THEN 0
    ELSE IF attrs[k].id = lawId THEN k
    ELSE FindLaw(attrs, lawId, k + 1)

updateCensusAlwaysIngested(c, lawId, provisionCount) ==
    LET k == FindLaw(env.laws, lawId, 1)
        laws == IF k = 0 THEN c.laws
                ELSE [c.laws EXCEPT ![k] =
                         [ingested |-> TRUE,
                          provision_count |-> provisionCount]]
    IN  [laws |-> laws, summary |-> [ingested |-> CountIngested(laws)]]

\* law.ingested = provisionCount > 0; law.provision_count = provisionCount;
\* census.summary.ingested = census.laws.filter(l => l.ingested).length
updateCensus(c, lawId, provisionCount) ==
    LET k == FindLaw(env.laws, lawId, 1)
        laws == IF k = 0 THEN c.laws
                ELSE [c.laws EXCEPT ![k] =
                         [ingested |-> provisionCount > 0,
                          provision_count |-> provisionCount]]
    IN  [laws |-> laws, summary |-> [ingested |-> CountIngested(laws)]]

\* ------------------------------------------------------ main: the pending set

\* toProcess.sort: SortsBefore is the comparator, a sorts before b.
\* Array.prototype.sort is stable: x goes before the first element it sorts
\* before.
RECURSIVE InsertSorted(_, _)
InsertSorted(x, sorted) ==
    LET SortsBefore(a, b) ==
            IF env.laws[a].year # env.laws[b].year
            THEN env.laws[b].year - env.laws[a].year < 0
            ELSE env.laws[a].number - env.laws[b].number < 0
    IN  IF Len(sorted) = 0 THEN <<x>>
        ELSE IF SortsBefore(x, Head(sorted)) THEN <<x>> \o sorted
        ELSE <<Head(sorted)>> \o InsertSorted(x, Tail(sorted))

RECURSIVE SortLaws(_)
SortLaws(ls) ==
    IF Len(ls) = 0 THEN << >>
    ELSE InsertSorted(ls[Len(ls)], SortLaws(SubSeq(ls, 1, Len(ls) - 1)))

SelectedAnyClassification(k) ==
    /\ (env.args.id # "" => env.laws[k].id = env.args.id)
    /\ (env.args.type # "" => env.laws[k].type = env.args.type)
    /\ (env.args.fromYear # 0 => env.laws[k].year >= env.args.fromYear)

\* The filters of main; an argument that was not given (or that JavaScript
\* takes for false: "", 0, NaN) is 0 or "".
Selected(k) ==
    /\ env.laws[k].classification \in {"ingestable", "pre_republic"}
    /\ (env.args.id # "" => env.laws[k].id = env.args.id)
    /\ (env.args.type # "" => env.laws[k].type = env.args.type)
    /\ (env.args.fromYear # 0 => env.laws[k].year >= env.args.fromYear)

PendingSet ==
    LET all == [k \in 1..Len(env.laws) |-> k]
        sorted == SortLaws(SelectSeq(all, Selected))
    IN  IF env.args.limit # 0
        THEN SubSeq(sorted, 1, Min(env.args.limit, Len(sorted)))
        ELSE sorted

\* ---------------------------------------------------------------- ingestAct

\* What the parsers make of an article they do not recognize.
None == [null |-> TRUE]

\* A provision: its reference token, its heading and its body, strings
\* written as sequences of characters.
Provision(provision_ref, title, content) ==
    [provision_ref |-> provision_ref, title |-> title, content |-> content]

Refs == { <<"a", "r", "t", "1">>, <<"a", "r", "t", "2">> }

Art1 == Provision(<<"a", "r", "t", "1">>, << >>, <<"x">>)

SeenRefNever(provisions, ref) == FALSE

\* seenRefs.has(parsed.provision_ref)
SeenRef(provisions, ref) ==
    \E k \in 1..Len(provisions) : provisions[k].provision_ref = ref

\* The parse loop of ingestAct: parsed[k] is what the parsers make of the
\* k-th article, None or a provision; a provision whose reference was seen
\* before is dropped.
RECURSIVE CollectProvisions(_, _, _)
CollectProvisions(parsed, k, provisions) ==
    IF k > Len(parsed) THEN provisions
    ELSE IF parsed[k] # None /\ ~SeenRef(provisions, parsed[k].provision_ref)
    THEN CollectProvisions(parsed, k + 1, Append(provisions, parsed[k]))
    ELSE CollectProvisions(parsed, k + 1, provisions)

IngestErrorEscapes ==
    [provisions |-> << >>, failed |-> TRUE, thrown |-> TRUE, conflicts |-> {},
     parsed |-> << >>]

\* The catch block of ingestAct: an empty seed, failed.
IngestError ==
    [provisions |-> << >>, failed |-> TRUE, thrown |-> FALSE, conflicts |-> {},
     parsed |-> << >>]

\* ingestAct once fetchAllArticles has returned `articles`.
IngestOutcomes(articles) ==
    IF Len(articles) = 0
    THEN {[provisions |-> << >>, failed |-> TRUE, thrown |-> FALSE,
           conflicts |-> {}, parsed |-> << >>]}
    ELSE {LET kept == CollectProvisions(parsed, 1, << >>)
              \* History: the provisions the parse loop dropped although
              \* their body differs from that of the provision kept for
              \* their reference.
              DroppedConflicts ==
                  {c \in {[kept |-> kept[j], dropped |-> parsed[k]] :
                              j \in 1..Len(kept),
                              k \in {i \in 1..Len(parsed) :
                                         parsed[i] # None}} :
                      /\ c.dropped.provision_ref = c.kept.provision_ref
                      /\ c.dropped.content # c.kept.content}
          IN  [provisions |-> kept, failed |-> FALSE, thrown |-> FALSE,
               conflicts |-> DroppedConflicts,
               parsed |-> parsed] :
              parsed \in [1..Len(articles) -> env.provisions \cup {None}]}

\* The rest of main's loop body once ingestAct has settled with `out`, up
\* to the pause between Acts.  An error that escapes ingestAct ends the
\* process (main().catch).
FinishAct(out, settled) ==
    LET law == run.toProcess[run.idx]
        n == Len(out.provisions)
        census1 == updateCensus(census, env.laws[law].id, n)
        processed1 == run.processed + 1
        \* if (processed % 10 === 0) fs.writeFileSync(CENSUS_PATH, ...)
        CheckpointDue(processed) == processed % CheckpointEvery = 0
    IN  IF out.thrown
        THEN /\ run' = [run EXCEPT !.pc = "exit"]
             /\ UNCHANGED << census, seeds, censusDisk, audit >>
        ELSE /\ seeds' = [seeds EXCEPT ![law] =
                             [exists |-> TRUE, provisions |-> out.provisions]]
             /\ census' = census1
             /\ censusDisk' = IF CheckpointDue(processed1) THEN census1
                              ELSE censusDisk
             /\ run' = [run EXCEPT
                    !.totalProvisions = @ + n,
                    !.failed = IF out.failed THEN @ + 1 ELSE @,
                    !.ingestedCount = IF out.failed THEN @ ELSE @ + 1,
                    !.processed = processed1,
                    !.idx = @ + 1,
                    !.pc = IF processed1 < Len(run.toProcess)
                           THEN "pause" ELSE "loop",
                    !.pauseTimer = IF processed1 < Len(run.toProcess)
                                   THEN PauseMs ELSE -1]
             /\ audit' = [audit EXCEPT
                    !.sinceWrite = IF CheckpointDue(processed1) THEN 0
                                   ELSE @ + 1,
                    !.written = @ \cup {law},
                    !.failedActs = IF out.failed THEN @ \cup {law} ELSE @,
                    !.ingestedActs = IF out.failed THEN @ ELSE @ \cup {law},
                    !.conflicts = @ \cup out.conflicts,
                    !.lastCrawl = [settled EXCEPT !.parsed = out.parsed]]

\* --------------------------------------------------------- fetchAllArticles

IdleCrawl ==
    [phase |-> "idle", law |-> 0, articleUrls |-> 0, i |-> 0,
     results |-> << >>, failed |-> 0, fetched |-> 0]

Null == -1
Abort == -2

ArticleResultNoCatch(c) ==
    IF c.res.kind = "returned"
    THEN (IF c.res.status = 200 /\ c.res.len > MinBodyLength
          THEN c.url ELSE Null)
    ELSE Abort

\* What one entry of a batch contributes: the article when its fetch
\* returned a usable page, null otherwise (the catch included).
ArticleResult(c) ==
    IF c.res.kind = "returned"
    THEN (IF c.res.status = 200 /\ c.res.len > MinBodyLength
          THEN c.url ELSE Null)
    ELSE Null

BatchReversed(n, i) ==
    LET len == Min(i + ARTICLE_CONCURRENCY, n) - i
    IN  [k \in 1..len |-> i + len - k + 1]

BatchFromStart(n, i) == [k \in 1..Min(ARTICLE_CONCURRENCY, n) |-> k]

\* articleUrls.slice(i, i + ARTICLE_CONCURRENCY)
Batch(n, i) == [k \in 1..(Min(i + ARTICLE_CONCURRENCY, n) - i) |-> i + k]

\* The frame when fetchAllArticles has settled, for the history.
Settled(law, n, results, failed, threw) ==
    [law |-> law, articleUrls |-> n, results |-> results, failed |-> failed,
     threw |-> threw, usable |-> wire.usable,
     attempts |-> [s \in Slots |-> callers[s].nreq], parsed |-> << >>]

\* The landing page has settled.  A rejected fetch or a status other than
\* 200 throws into ingestAct's catch; a page without article URLs returns
\* []; otherwise the first batch is started.
LandingDone ==
    /\ crawl.phase = "landing"
    /\ callers[1].pc = "done"
    /\ LET res == callers[1].res
       IN  IF res.kind = "threw" \/ res.status # 200
           THEN /\ FinishAct(IngestError,
                             Settled(crawl.law, 0, << >>, 0, TRUE))
                /\ crawl' = IdleCrawl
                /\ callers' = [s \in Slots |-> IdleCaller]
                /\ UNCHANGED lastRequestTime
           ELSE \E n \in env.urls[crawl.law] :
                  IF n = 0
                  THEN /\ \E out \in IngestOutcomes(<< >>) :
                              FinishAct(out,
                                        Settled(crawl.law, 0, << >>, 0, FALSE))
                       /\ crawl' = IdleCrawl
                       /\ callers' = [s \in Slots |-> IdleCaller]
                       /\ UNCHANGED lastRequestTime
                  ELSE LET started == StartCalls(Batch(n, 0), lastRequestTime)
                       IN  /\ crawl' = [crawl EXCEPT !.phase = "batch",
                                                     !.articleUrls = n]
                           /\ callers' = started.callers
                           /\ lastRequestTime' = started.lrt
                           /\ UNCHANGED << run, census, seeds, censusDisk,
                                           audit >>
    /\ UNCHANGED << env, call, sessionCookies, wire >>

\* Promise.all of a batch has settled: its results are tallied in the order
\* of the batch, and the next batch is started or the articles are returned
\* to ingestAct.
BatchDone ==
    /\ crawl.phase = "batch"
    /\ LET batch == Batch(crawl.articleUrls, crawl.i)
           batchResults == [k \in 1..Len(batch) |-> ArticleResult(callers[k])]
           ok == SelectSeq(batchResults, LAMBDA r : r # Null)
           results1 == crawl.results \o ok
           failed1 == crawl.failed + (Len(batch) - Len(ok))
           i1 == crawl.i + ARTICLE_CONCURRENCY
       IN  /\ \A k \in 1..Len(batch) : callers[k].pc = "done"
           /\ IF \E k \in 1..Len(batch) : batchResults[k] = Abort
              THEN /\ FinishAct(IngestError,
                                Settled(crawl.law, crawl.articleUrls,
                                        results1, failed1, TRUE))
                   /\ crawl' = IdleCrawl
                   /\ callers' = [s \in Slots |-> IdleCaller]
                   /\ UNCHANGED lastRequestTime
              ELSE IF i1 < crawl.articleUrls
              THEN LET started == StartCalls(Batch(crawl.articleUrls, i1),
                                             lastRequestTime)
                   IN  /\ crawl' = [crawl EXCEPT
                              !.i = i1, !.results = results1,
                              !.failed = failed1,
                              !.fetched = @ + Len(batch)]
                       /\ callers' = started.callers
                       /\ lastRequestTime' = started.lrt
                       /\ UNCHANGED << run, census, seeds, censusDisk, audit >>
              ELSE /\ \E out \in IngestOutcomes(results1) :
                          FinishAct(out,
                                    Settled(crawl.law, crawl.articleUrls,
                                            results1, failed1, FALSE))
                   /\ crawl' = IdleCrawl
                   /\ callers' = [s \in Slots |-> IdleCaller]
                   /\ UNCHANGED lastRequestTime
    /\ UNCHANGED << env, call, sessionCookies, wire >>

\* --------------------------------------------------------------------- main

StaleSession == sessionCookies

\* fetchAllArticles: sessionCookies = [] (reset session for each act)
FreshSession == << >>

\* main up to its loop: the census is read, the pending set is built.
Start ==
    /\ run.pc = "start"
    /\ census' = censusDisk
    /\ run' = [run EXCEPT !.pc = "loop", !.toProcess = PendingSet, !.idx = 1]
    /\ UNCHANGED << env, call, lastRequestTime, sessionCookies, callers, crawl,
                    seeds, censusDisk, wire, audit >>

ShouldSkipInverted(law) ==
    /\ env.args.force
    /\ seeds[law].exists
    /\ Len(seeds[law].provisions) > 0

\* if (!force && fs.existsSync(seedFile)) { ... provisions.length > 0 ... }
ShouldSkip(law) ==
    /\ ~env.args.force
    /\ seeds[law].exists
    /\ Len(seeds[law].provisions) > 0

\* One turn of the loop of main, up to its first await: the Act is skipped,
\* or ingestAct and fetchAllArticles are entered, the session is reset and
\* the fetch of the landing page is started.
MainLoop ==
    /\ run.pc = "loop"
    /\ run.idx <= Len(run.toProcess)
    /\ LET law == run.toProcess[run.idx]
       IN  IF ShouldSkip(law)
           THEN LET n == Len(seeds[law].provisions)
                IN  /\ census' = IF ~census.laws[law].ingested
                                 THEN updateCensus(census, env.laws[law].id, n)
                                 ELSE census
                    /\ run' = [run EXCEPT !.totalProvisions = @ + n,
                                          !.skipped = @ + 1,
                                          !.processed = @ + 1,
                                          !.idx = @ + 1]
                    /\ audit' = [audit EXCEPT !.sinceWrite = @ + 1,
                                              !.skippedActs = @ \cup {law}]
                    /\ UNCHANGED << lastRequestTime, sessionCookies, callers,
                                    crawl, wire >>
           ELSE LET started == StartCalls(<<LandingUrl>>, lastRequestTime)
                IN  /\ sessionCookies' = FreshSession
                    /\ callers' = started.callers
                    /\ lastRequestTime' = started.lrt
                    /\ crawl' = [IdleCrawl EXCEPT !.phase = "landing",
                                                  !.law = law]
                    /\ run' = [run EXCEPT !.pc = "crawl"]
                    /\ wire' = [wire EXCEPT !.jar = {}, !.usable = {},
                                            !.overwrote = FALSE,
                                            !.crawlNo = @ + 1]
                    /\ UNCHANGED << census, audit >>
    /\ UNCHANGED << env, call, seeds, censusDisk >>

\* The pause between two Acts is over.
PauseExpire ==
    /\ run.pc = "pause"
    /\ run.pauseTimer = 0
    /\ run' = [run EXCEPT !.pc = "loop", !.pauseTimer = -1]
    /\ UNCHANGED << env, call, lastRequestTime, sessionCookies, callers, crawl,
                    census, seeds, censusDisk, wire, audit >>

\* After the loop: the final census save.
Finish ==
    /\ run.pc = "loop"
    /\ run.idx > Len(run.toProcess)
    /\ censusDisk' = census
    /\ run' = [run EXCEPT !.pc = "done"]
    /\ audit' = [audit EXCEPT !.sinceWrite = 0]
    /\ UNCHANGED << env, call, lastRequestTime, sessionCookies, callers, crawl,
                    census, seeds, wire >>

\* --------------------------------------------------------------------- time

Timers ==
    {callers[s].timer : s \in Slots} \cup {run.pauseTimer}

\* Some handler can run at the current instant.
Runnable ==
    \/ run.pc \in {"start", "loop"}
    \/ \E s \in Slots : callers[s].pc = "rlDone"
    \/ 0 \in Timers
    \/ crawl.phase = "landing" /\ callers[1].pc = "done"
    \/ /\ crawl.phase = "batch"
       /\ \A k \in 1..Len(Batch(crawl.articleUrls, crawl.i)) :
              callers[k].pc = "done"

Elapse(t, d) == IF t > 0 THEN t - d ELSE t

\* Nothing can run: the current instant moves to the next timer.
Tick ==
    /\ ~Runnable
    /\ \E d \in {t \in Timers : t > 0} :
         /\ \A t \in Timers : t > 0 => d <= t
         /\ callers' = [s \in Slots |->
                           [callers[s] EXCEPT !.timer = Elapse(@, d)]]
         /\ run' = [run EXCEPT !.pauseTimer = Elapse(@, d)]
         /\ lastRequestTime' = Max(lastRequestTime - d, 0 - MIN_DELAY_MS)
         /\ wire' = [wire EXCEPT
                        !.lastDispatch = Max(@ - d, 0 - MIN_DELAY_MS)]
    /\ UNCHANGED << env, call, sessionCookies, crawl, census, seeds, censusDisk,
                    audit >>

Next ==
    \/ Start
    \/ MainLoop
    \/ \E s \in Slots : RateLimitWake(s)
    \/ \E s \in Slots : Dispatch(s)
    \/ \E s \in Slots : Respond(s)
    \/ \E s \in Slots : BackoffExpire(s)
    \/ LandingDone
    \/ BatchDone
    \/ PauseExpire
    \/ Finish
    \/ Tick

\* ------------------------------------------------------------ initial states

Law(id, type, number, year, classification) ==
    [id |-> id, type |-> type, number |-> number, year |-> year,
     classification |-> classification]

NoArgs == [limit |-> 0, force |-> FALSE, type |-> "", id |-> "", fromYear |-> 0]

Resp(status, len, cookies) ==
    [net |-> FALSE, status |-> status, len |-> len, cookies |-> cookies]
NetworkFailure == [net |-> TRUE, status |-> 0, len |-> 0, cookies |-> << >>]


NoSeed == [exists |-> FALSE, provisions |-> << >>]
SeedOf(provisions) == [exists |-> TRUE, provisions |-> provisions]

\* The census entries that go with a seed directory: an Act is marked
\* ingested only if its seed holds provisions (it may not be marked yet).
CensusFor(sd) ==
    {[laws |-> laws, summary |-> [ingested |-> CountIngested(laws)]] :
        laws \in {ls \in [1..Len(sd) ->
                            [ingested : BOOLEAN, provision_count : 0..2]] :
                     \A k \in 1..Len(sd) :
                        IF ls[k].ingested
                        THEN /\ Len(sd[k].provisions) > 0
                             /\ ls[k].provision_count = Len(sd[k].provisions)
                        ELSE ls[k].provision_count = 0}}

\* No library function is being called on its own.
NoCall == [fn |-> "none"]

\* The state of a fresh process in world e, with seed directory sd and
\* census file cf.
Fresh(e, sd, cf) ==
    /\ env = e
    /\ lastRequestTime = 0 - MIN_DELAY_MS
    /\ sessionCookies = << >>
    /\ callers = [s \in Slots |-> IdleCaller]
    /\ crawl = IdleCrawl
    /\ run = [pc |-> "start", toProcess |-> << >>, idx |-> 1,
              totalProvisions |-> 0, processed |-> 0, skipped |-> 0,
              failed |-> 0, ingestedCount |-> 0, pauseTimer |-> -1]
    /\ census = cf
    /\ seeds = sd
    /\ censusDisk = cf
    /\ wire = [lastDispatch |-> 0 - MIN_DELAY_MS,
               dispatchGap |-> MIN_DELAY_MS,
               sent |-> [crawlNo |-> 0, cookie |-> << >>, jar |-> {}],
               requested |-> {}, jar |-> {}, usable |-> {}, crawlNo |-> 0,
               cookiesSetIn |-> {}, overwrote |-> FALSE]
    /\ audit = [sinceWrite |-> 0, written |-> {}, skippedActs |-> {},
                failedActs |-> {}, ingestedActs |-> {}, conflicts |-> {},
                lastCrawl |->
                    [law |-> 0, articleUrls |-> 0, results |-> << >>,
                     failed |-> 0, threw |-> FALSE, usable |-> {},
                     attempts |-> [s \in Slots |-> 0], parsed |-> << >>]]

\* A world: the census attributes, the CLI arguments, and the site: for each
\* Act the numbers of article URLs its landing page may list and, for each
\* of its URLs (0 is the landing page), the answers the server may give.
World(laws, args, urls, responses, latencies) ==
    [laws |-> laws, args |-> args, urls |-> urls, responses |-> responses,
     latencies |-> latencies, provisions |-> { Provision(r, << >>, <<"x">>) : r \in Refs }]

InitIn(worlds, seedChoices) ==
    \E e \in worlds :
    \E sd \in [1..Len(e.laws) -> seedChoices] :
    \E cf \in CensusFor(sd) :
        Fresh(e, sd, cf) /\ call = NoCall

Ok200 == Resp(200, 101, << >>)

\* ---------------------------------------------------------------------------
\* The retry loop: an Act with two articles on a server that may answer
\* every request with any status or not at all, followed by an Act without
\* articles.
SpecRetry ==
    /\ LET RetryWorld ==
           World(<< Law("dlgs-1-2003", "dlgs", 1, 2003, "ingestable"),
                    Law("dlgs-2-2003", "dlgs", 2, 2003, "ingestable") >>,
                 NoArgs,
                 << {2}, {0} >>,
                 << [u \in 0..2 |-> { Ok200, Resp(200, 100, << >>), Resp(404, 101, << >>),
                                      Resp(429, 101, << >>), Resp(500, 101, << >>),
                                      Resp(503, 0, << >>), NetworkFailure }],
                    [u \in 0..0 |-> { Ok200 }] >>,
                 {50, 200})
       IN  InitIn({RetryWorld}, {NoSeed})
    /\ [][Next]_vars

\* ---------------------------------------------------------------------------
\* The batches of one crawl: an Act whose landing page lists MaxUrls
\* articles, fetched ARTICLE_CONCURRENCY at a time; every article fetch may
\* succeed, return an unusable page, be answered 500 or fail.  An Act
\* without articles follows.
SpecBatch ==
    /\ LET BatchWorld ==
           World(<< Law("dlgs-1-2003", "dlgs", 1, 2003, "ingestable"),
                    Law("dlgs-2-2003", "dlgs", 2, 2003, "ingestable") >>,
                 NoArgs,
                 << {MaxUrls}, {0} >>,
                 << [u \in 0..MaxUrls |->
                        IF u = LandingUrl THEN { Ok200 }
                        ELSE { Ok200, Resp(200, 100, << >>), Resp(500, 101, << >>),
                               NetworkFailure }],
                    [u \in 0..0 |-> { Ok200 }] >>,
                 {50, 200})
       IN  InitIn({BatchWorld}, {NoSeed})
    /\ [][Next]_vars

\* ---------------------------------------------------------------------------
\* The session: MaxCrawls Acts of two articles each, crawled one after the
\* other on a server that sets cookies, also on a response that is retried.
SpecSession ==
    /\ LET SessionWorld ==
           LET SessionLaws ==
                   [k \in 1..MaxCrawls |->
                       Law(<<"dlgs", k>>, "dlgs", k, 2003, "ingestable")]
               CookieAb == [name |-> <<"a", "b">>, v |-> << >>, attrs |-> FALSE]
               SessionResponses ==
                   { Ok200,
                     Resp(200, 101, <<[name |-> <<"a">>, v |-> << >>,
                                       attrs |-> TRUE]>>),
                     Resp(200, 101, <<CookieAb>>),
                     Resp(503, 0, <<CookieAb,
                                    [name |-> <<"a">>, v |-> <<"x">>,
                                     attrs |-> FALSE]>>) }
           IN  World(SessionLaws, NoArgs,
                     [k \in 1..MaxCrawls |-> {2}],
                     [k \in 1..MaxCrawls |-> [u \in 0..2 |-> SessionResponses]],
                     {50, 200})
       IN  InitIn({SessionWorld}, {NoSeed})
    /\ [][Next]_vars

\* ---------------------------------------------------------------------------
\* The checkpoints of a resumed run: a census of CheckpointEvery + 1 Acts,
\* of which an earlier, interrupted run has left seeds for the first few in
\* processing order.  Only the last Act has an article, and only its fetches
\* may be answered 500.
CheckpointActs == CheckpointEvery + 1

SpecCheckpoint ==
    /\ LET CheckpointWorld ==
           World([k \in 1..CheckpointActs |->
                     Law(<<"legge", k>>, "legge", k, 2012, "ingestable")],
                 NoArgs,
                 [k \in 1..CheckpointActs |->
                     IF k = CheckpointActs THEN {1} ELSE {0}],
                 [k \in 1..CheckpointActs |->
                     IF k = CheckpointActs
                     THEN [u \in 0..1 |-> { Ok200, Resp(500, 0, << >>) }]
                     ELSE [u \in 0..0 |-> { Ok200 }]],
                 {50})
       IN  \E cached \in 0..CheckpointActs :
           \E marked \in BOOLEAN :
               LET sd == [k \in 1..CheckpointActs |->
                             IF k <= cached THEN SeedOf(<<Art1>>) ELSE NoSeed]
                   laws == [k \in 1..CheckpointActs |->
                               IF marked /\ k <= cached
                               THEN [ingested |-> TRUE, provision_count |-> 1]
                               ELSE [ingested |-> FALSE, provision_count |-> 0]]
               IN  /\ Fresh(CheckpointWorld, sd,
                            [laws |-> laws,
                             summary |-> [ingested |-> CountIngested(laws)]])
                   /\ call = NoCall
    /\ [][Next]_vars

\* ---------------------------------------------------------------------------
\* The orchestrator: a census of MaxActs Acts of different years, run with
\* or without --force over any seed directory an earlier run can have left;
\* an Act lists two articles or none, its landing page may be refused or
\* unreachable, and each article fetch may succeed or fail.
SpecIngest ==
    /\ LET IngestWorlds ==
           { World([k \in 1..MaxActs |->
                       IF k % 3 = 1
                       THEN Law(<<"dlgs", k>>, "dlgs", 196, 2003, "ingestable")
                       ELSE IF k % 3 = 2
                       THEN Law(<<"legge", k>>, "legge", 190, 2012, "ingestable")
                       ELSE Law(<<"rd", k>>, "rd", 262, 1942, "pre_republic")],
                   [NoArgs EXCEPT !.force = force],
                   [k \in 1..MaxActs |-> {0, 2}],
                   [k \in 1..MaxActs |->
                       [u \in 0..2 |->
                           IF u = LandingUrl
                           THEN { Ok200, Resp(404, 101, << >>), Resp(500, 0, << >>),
                                  NetworkFailure }
                           ELSE { Ok200, NetworkFailure }]],
                   {50}) : force \in BOOLEAN }
       IN  InitIn(IngestWorlds, {NoSeed, SeedOf(<< >>), SeedOf(<<Art1>>)})
    /\ [][Next]_vars

\* The same, with the scheduling of a running process: a handler that can
\* run does run, and a timer that is due fires.
FairSpecIngest == SpecIngest /\ WF_vars(Next)

\* ---------------------------------------------------------------------------
\* The filters: a census with an excluded Act, Acts of the same year, and
\* Acts of the same year and number, run with any combination of --id,
\* --type, --from and --limit over a seed directory an earlier run can have
\* left.  Every Act lists one article; the landing page of the oldest Act
\* may be answered 503.
FilterLaws ==
    << Law("dpr-445-2000", "dpr", 445, 2000, "excluded"),
       Law("dlgs-196-2003", "dlgs", 196, 2003, "ingestable"),
       Law("legge-3-2003", "legge", 3, 2003, "ingestable"),
       Law("legge-196-2003", "legge", 196, 2003, "ingestable"),
       Law("rd-262-1942", "rd", 262, 1942, "pre_republic") >>

SpecFilter ==
    /\ LET FilterWorlds ==
           { World(FilterLaws,
                   [NoArgs EXCEPT !.id = id, !.type = type, !.fromYear = fromYear,
                                  !.limit = limit],
                   [k \in 1..Len(FilterLaws) |-> {1}],
                   [k \in 1..Len(FilterLaws) |->
                       [u \in 0..1 |->
                           IF k = Len(FilterLaws) /\ u = LandingUrl
                           THEN { Ok200, Resp(503, 0, << >>) }
                           ELSE { Ok200 }]],
                   {50}) :
               id \in {"", "dlgs-196-2003", "dpr-445-2000"},
               type \in {"", "legge"},
               fromYear \in {0, 2003},
               limit \in 0..MaxLimit }
       IN  InitIn(FilterWorlds, {NoSeed, SeedOf(<<Art1>>)})
    /\ [][Next]_vars

\* ---------------------------------------------------------------------------
\* A library function called on its own: the ingestion process is not
\* running, `call` holds the frame of the function.
Library(frame) ==
    /\ Fresh(World(<< >>, NoArgs, << >>, << >>, {}), << >>,
             [laws |-> << >>, summary |-> [ingested |-> 0]])
    /\ call = frame

\* Number.parseInt / Number on a string of decimal digits (the regular
\* expressions of the callers capture \d+ only); Number("") is 0.
DigitValue(c) ==
    CASE c = "0" -> 0 [] c = "1" -> 1 [] c = "2" -> 2 [] c = "3" -> 3
      [] c = "4" -> 4 [] c = "5" -> 5 [] c = "6" -> 6 [] c = "7" -> 7
      [] c = "8" -> 8 [] c = "9" -> 9

RECURSIVE ToNumber(_)
ToNumber(ds) ==
    IF Len(ds) = 0 THEN 0
    ELSE 10 * ToNumber(SubSeq(ds, 1, Len(ds) - 1)) + DigitValue(ds[Len(ds)])

\* ---------------------------------------------------------------------------
\* extractArticleUrls.  The landing page is the sequence of its
\* caricaArticolo directives; of the parameters of a directive the model
\* keeps art.idArticolo and art.idSottoArticolo (strings of digits, empty
\* when the parameter is absent), art.versione (the same) and whether the
\* text imUpdate=true occurs.  The URL made of a directive is identified
\* with its parameters.

NeverHistorical(params) == FALSE

\* params.includes('imUpdate=true')
IsHistorical(params) == params.imUpdate

\* seen.get(key): the index of the entry in insertion order, 0 if none.
RECURSIVE SeenIndex(_, _, _)
SeenIndex(seen, key, k) ==
    IF k > Len(seen) THEN 0
    ELSE IF seen[k].key = key THEN k
    ELSE SeenIndex(seen, key, k + 1)

\* One turn of the while loop on the directive `params`; Map.set on a key
\* that is present keeps the place of the entry.
\*   const key = `${idArticolo}:${idSottoArticolo}`
\*   parseInt(params.match(/art\.versione=(\d+)/)?.[1] ?? '0', 10)
SeeDirective(seen, params) ==
    IF IsHistorical(params) THEN seen
    ELSE LET key == params.idArticolo \o <<":">> \o params.idSottoArticolo
             version ==
                 ToNumber(IF Len(params.versione) = 0 THEN <<"0">>
                          ELSE params.versione)
             k == SeenIndex(seen, key, 1)
             entry == [key |-> key, url |-> params, version |-> version]
         IN  IF k = 0 THEN Append(seen, entry)
             ELSE IF version > seen[k].version
             THEN [seen EXCEPT ![k] = entry]
             ELSE seen

\* The sort of the entries. KeyNumbers is a[0].split(':').map(Number);
\* EntrySortsBefore is the comparator: aArt - bArt || aSub - bSub, negative.
\* Array.prototype.sort is stable: e goes after every entry it does not
\* sort before.
RECURSIVE InsertEntry(_, _)
InsertEntry(e, sorted) ==
    LET KeyNumbers(key) ==
            LET k == IndexOfFrom(key, ":", 1)
            IN  << ToNumber(SubSeq(key, 1, k - 1)),
                   ToNumber(SubSeq(key, k + 1, Len(key))) >>
        EntrySortsBefore(a, b) ==
            LET an == KeyNumbers(a.key)
                bn == KeyNumbers(b.key)
            IN  IF an[1] - bn[1] # 0 THEN an[1] - bn[1] < 0
                ELSE an[2] - bn[2] < 0
    IN  IF Len(sorted) = 0 THEN <<e>>
        ELSE IF EntrySortsBefore(e, Head(sorted)) THEN <<e>> \o sorted
        ELSE <<Head(sorted)>> \o InsertEntry(e, Tail(sorted))

InsertionOrder(entries) == entries

RECURSIVE SortEntries(_)
SortEntries(entries) ==
    IF Len(entries) = 0 THEN << >>
    ELSE InsertEntry(entries[Len(entries)],
                     SortEntries(SubSeq(entries, 1, Len(entries) - 1)))

\* One urlPattern.exec(html) that finds a directive.
ExtractMatch ==
    /\ call.fn = "extractArticleUrls"
    /\ ~call.returned
    /\ call.pos <= Len(call.html)
    /\ call' = [call EXCEPT !.pos = @ + 1,
                            !.seen = SeeDirective(@, call.html[call.pos])]
    /\ UNCHANGED << env, lastRequestTime, sessionCookies, callers, crawl,
                    run, census, seeds, censusDisk, wire, audit >>

\* No directive is left: the entries are sorted and their URLs returned.
ExtractReturn ==
    /\ call.fn = "extractArticleUrls"
    /\ ~call.returned
    /\ call.pos > Len(call.html)
    /\ call' = [call EXCEPT
                   !.returned = TRUE,
                   !.urls = LET sorted == SortEntries(call.seen)
                            IN  [k \in 1..Len(sorted) |-> sorted[k].url]]
    /\ UNCHANGED << env, lastRequestTime, sessionCookies, callers, crawl,
                    run, census, seeds, censusDisk, wire, audit >>

RECURSIVE SeqsUpTo(_, _)
SeqsUpTo(S, n) ==
    IF n = 0 THEN {<< >>}
    ELSE LET shorter == SeqsUpTo(S, n - 1)
         IN  shorter \cup {Append(q, x) : q \in shorter, x \in S}

\* The landing pages of at most MaxDirectives directives.
SpecExtract ==
    /\ LET Directives ==
               [idArticolo : {<<"2">>, <<"1", "0">>},
                idSottoArticolo : {<< >>, <<"1">>},
                versione : {<<"3">>, <<"1", "0">>},
                imUpdate : BOOLEAN]
       IN  \E html \in SeqsUpTo(Directives, MaxDirectives) :
               Library([fn |-> "extractArticleUrls", html |-> html,
                        pos |-> 1, seen |-> << >>, returned |-> FALSE,
                        urls |-> << >>])
    /\ [][ExtractMatch \/ ExtractReturn]_vars

\* ---------------------------------------------------------------------------
\* dedupeProvisions (scripts/ingest.ts), called by buildDatabase on the
\* provisions of a seed record.

\* A title that is not there (title?: string).
Undefined == <<"undefined">>

\* \s
IsSpace(c) == c \in {" ", "\t", "\n"}

\* String.prototype.trim
RECURSIVE trim(_)
trim(text) ==
    IF Len(text) = 0 THEN text
    ELSE IF IsSpace(Head(text)) THEN trim(Tail(text))
    ELSE IF IsSpace(text[Len(text)]) THEN trim(SubSeq(text, 1, Len(text) - 1))
    ELSE text

\* text.replace(/\s+/g, ' '): every run of whitespace becomes one space.
RECURSIVE CollapseSpaces(_)
CollapseSpaces(text) ==
    IF Len(text) = 0 THEN text
    ELSE IF IsSpace(Head(text))
    THEN IF Len(text) > 1 /\ IsSpace(text[2])
         THEN CollapseSpaces(Tail(text))
         ELSE <<" ">> \o CollapseSpaces(Tail(text))
    ELSE <<Head(text)>> \o CollapseSpaces(Tail(text))

normalizeWhitespace(text) == trim(CollapseSpaces(text))

\* Coalesce is a ?? b.
pickPreferredProvision(existing, incoming) ==
    LET Coalesce(a, b) == IF a = Undefined THEN b ELSE a
        existingContent == normalizeWhitespace(existing.content)
        incomingContent == normalizeWhitespace(incoming.content)
    IN  IF Len(incomingContent) > Len(existingContent)
        THEN [incoming EXCEPT !.title = Coalesce(incoming.title, existing.title)]
        ELSE [existing EXCEPT !.title = Coalesce(existing.title, incoming.title)]

\* byRef.get(ref): the index of the entry in insertion order, 0 if none.
RECURSIVE ByRefIndex(_, _, _)
ByRefIndex(byRef, ref, k) ==
    IF k > Len(byRef) THEN 0
    ELSE IF byRef[k].key = ref THEN k
    ELSE ByRefIndex(byRef, ref, k + 1)

\* dedupeProvisions is called on the provisions of a seed record.
DedupeCall(provisions) ==
    [fn |-> "dedupeProvisions", provisions |-> provisions, pos |-> 1,
     byRef |-> << >>,
     stats |-> [duplicate_refs |-> 0, conflicting_duplicates |-> 0],
     returned |-> FALSE, deduped |-> << >>]

\* One turn of the loop of dedupeProvisions, on its frame.
DedupeTurn(frame) ==
    LET provision == frame.provisions[frame.pos]
        ref == trim(provision.provision_ref)
        k == ByRefIndex(frame.byRef, ref, 1)
    IN  IF k = 0
        THEN [frame EXCEPT
                 !.pos = @ + 1,
                 !.byRef = Append(@,
                     [key |-> ref,
                      value |-> [provision EXCEPT !.provision_ref = ref]])]
        ELSE LET existing == frame.byRef[k].value
             IN  [frame EXCEPT
                     !.pos = @ + 1,
                     !.stats.duplicate_refs = @ + 1,
                     !.stats.conflicting_duplicates =
                         IF normalizeWhitespace(existing.content)
                                # normalizeWhitespace(provision.content)
                         THEN @ + 1 ELSE @,
                     !.byRef[k].value =
                         pickPreferredProvision(existing, provision)]

RECURSIVE DedupeLoop(_)
DedupeLoop(frame) ==
    IF frame.pos > Len(frame.provisions) THEN frame
    ELSE DedupeLoop(DedupeTurn(frame))

\* dedupeProvisions as buildDatabase calls it.
dedupeProvisions(provisions) ==
    LET frame == DedupeLoop(DedupeCall(provisions))
    IN  [deduped |-> [k \in 1..Len(frame.byRef) |-> frame.byRef[k].value],
         stats |-> frame.stats]

DedupeStep ==
    /\ call.fn = "dedupeProvisions"
    /\ ~call.returned
    /\ call.pos <= Len(call.provisions)
    /\ call' = DedupeTurn(call)
    /\ UNCHANGED << env, lastRequestTime, sessionCookies, callers, crawl,
                    run, census, seeds, censusDisk, wire, audit >>

\* return { deduped: Array.from(byRef.values()), stats }
DedupeReturn ==
    /\ call.fn = "dedupeProvisions"
    /\ ~call.returned
    /\ call.pos > Len(call.provisions)
    /\ call' = [call EXCEPT
                   !.returned = TRUE,
                   !.deduped =
                       [k \in 1..Len(call.byRef) |-> call.byRef[k].value]]
    /\ UNCHANGED << env, lastRequestTime, sessionCookies, callers, crawl,
                    run, census, seeds, censusDisk, wire, audit >>

\* The provisions of a seed record: references with and without
\* surrounding whitespace, titles absent, empty and present, bodies of
\* different lengths before and after normalization.
SpecDedupe ==
    /\ LET SeedProvisions ==
               { Provision(ref, title, content) :
                   ref \in { <<"a", "r", "t", "1">>, <<"a", "r", "t", "1", " ">>,
                             <<"a", "r", "t", "2">> },
                   title \in { Undefined, << >>, <<"T">> },
                   content \in { <<"x">>, <<"x", " ", " ", "y">>,
                                 <<" ", "x", "y", " ", " ">> } }
       IN  \E provisions \in SeqsUpTo(SeedProvisions, MaxProvisions) :
               Library(DedupeCall(provisions))
    /\ [][DedupeStep \/ DedupeReturn]_vars

\* ---------------------------------------------------------------------------
\* normalizeEuYear (scripts/ingest.ts), called by extractEuReferences on the
\* year token of a citation, which its patterns capture as \d{2,4}.

normalizeEuYearPivotAbove(rawYear) ==
    LET parsed == ToNumber(rawYear)
    IN  IF Len(rawYear) = 2
        THEN (IF parsed > 50 THEN 1900 + parsed ELSE 2000 + parsed)
        ELSE parsed

normalizeEuYear(rawYear) ==
    LET parsed == ToNumber(rawYear)
    IN  IF Len(rawYear) = 2
        THEN (IF parsed >= 50 THEN 1900 + parsed ELSE 2000 + parsed)
        ELSE parsed

NormalizeYear ==
    /\ call.fn = "normalizeEuYear"
    /\ ~call.returned
    /\ call' = [call EXCEPT !.returned = TRUE,
                            !.year = normalizeEuYear(call.rawYear)]
    /\ UNCHANGED << env, lastRequestTime, sessionCookies, callers, crawl,
                    run, census, seeds, censusDisk, wire, audit >>

\* The year tokens called with: every 2-digit token, the 3-digit tokens of
\* one decade and the 4-digit tokens of the years around the pivot and around
\* both centuries.
SpecYear ==
    /\ LET Digits == {"0", "1", "2", "3", "4", "5", "6", "7", "8", "9"}
           YearTokens ==
               {<<a, b>> : a \in Digits, b \in Digits}
                   \cup {<<"0", "1", b>> : b \in Digits}
                   \cup {<<a, b, c, d>> :
                           a \in {"0", "1", "2"}, b \in {"0", "9"},
                           c \in {"1", "4", "5", "9"}, d \in {"0", "6", "9"}}
       IN  \E rawYear \in YearTokens :
               Library([fn |-> "normalizeEuYear", rawYear |-> rawYear,
                        returned |-> FALSE, year |-> 0])
    /\ [][NormalizeYear]_vars

\* ---------------------------------------------------------------------------
\* extractEuReferences (scripts/ingest.ts).  A text is a sequence of single
\* characters and of lexemes: a lexeme stands for the characters of a
\* citation, of a pinpoint, of a keyword or of a passage that holds none of
\* them, and the matches of the regular expressions on the lexemes are
\* tabulated.

\* A passage of ContextChars characters without citation, pinpoint or
\* keyword, which begins and ends with punctuation.
Passage == "[...]"

\* The number of characters a token stands for.
Width(t) ==
    CASE t = "Direttiva (CE) 95/46" -> 20
      [] t = "Direttiva 95/46/CE" -> 18
      [] t = "Regolamento (UE) 2016/679" -> 25
      [] t = "Regolamento (UE) 016/679" -> 24
      [] t = "attuazione" -> 10
      [] t = "implement" -> 9
      [] t = "art. 5" -> 6
      [] t = "art. 7" -> 6
      [] t = "in attuazione" -> 13
      [] t = Passage -> ContextChars
      [] t = "Art." -> 4
      [] t \in {"((", "))"} -> 2
      [] t \in {"615", "ter", "Ter", "TER"} -> 3
      [] t = "Oggetto" -> 7
      [] t = "Il trattamento..." -> 17
      [] t = "Il titolare..." -> 14
      [] OTHER -> 1

\* text.length
RECURSIVE TextLength(_)
TextLength(text) ==
    IF Len(text) = 0 THEN 0 ELSE Width(Head(text)) + TextLength(Tail(text))

\* The index of the first character of the k-th token.
IndexOf(text, k) == TextLength(SubSeq(text, 1, k - 1))

Match(typeRaw, communityRaw, rawYear, rawNumber, length) ==
    [matched |-> TRUE, typeRaw |-> typeRaw, communityRaw |-> communityRaw,
     rawYear |-> rawYear, rawNumber |-> rawNumber, length |-> length]

\* What patterns[p] captures when it is applied at the first character of
\* token t; a missing community is "".
Captures(p, t) ==
    CASE p = 0 /\ t = "Direttiva (CE) 95/46" ->
             Match("direttiva", "CE", <<"9", "5">>, <<"4", "6">>, 20)
      [] p = 0 /\ t = "Regolamento (UE) 2016/679" ->
             Match("regolamento", "UE", <<"2", "0", "1", "6">>,
                   <<"6", "7", "9">>, 25)
      [] p = 0 /\ t = "Regolamento (UE) 016/679" ->
             Match("regolamento", "UE", <<"0", "1", "6">>,
                   <<"6", "7", "9">>, 24)
      [] p = 1 /\ t = "Direttiva 95/46/CE" ->
             Match("direttiva", "CE", <<"9", "5">>, <<"4", "6">>, 18)
      [] p = 2 /\ t = "Direttiva 95/46/CE" ->
             Match("direttiva", "", <<"9", "5">>, <<"4", "6">>, 15)
      [] OTHER -> [matched |-> FALSE]

\* \b: the token begins and ends with a word character, so it is only
\* recognized between tokens that do not.
Bounded(text, k) ==
    LET WordEdge(t) == t \notin {" ", Passage}
    IN  /\ k = 1 \/ ~WordEdge(text[k - 1])
        /\ k = Len(text) \/ ~WordEdge(text[k + 1])

\* extractArticleReference: the pinpoint of the first match, "" for null.
RECURSIVE extractArticleReference(_, _, _)
extractArticleReference(text, context, j) ==
    IF j > Len(context) THEN ""
    ELSE IF context[j].t = "art. 5" /\ Bounded(text, context[j].k) THEN "5"
    ELSE IF context[j].t = "art. 7" /\ Bounded(text, context[j].k) THEN "7"
    ELSE extractArticleReference(text, context, j + 1)

\* The alternatives of the expression stand between two \b: of the lexemes
\* "in attuazione" and "implement" match, "attuazione" on its own does not
\* (no alternative ends where the word ends).
inferReferenceType(text, context) ==
    IF \E j \in 1..Len(context) :
           /\ context[j].t \in {"in attuazione", "implement"}
           /\ Bounded(text, context[j].k)
    THEN "implements" ELSE "references"

normalizeCommunity(value) ==
    IF value = "" THEN "EU"
    ELSE IF value \in {"CE", "EC"} THEN "EC"
    ELSE IF value \in {"CEE", "EEC"} THEN "EEC"
    ELSE IF value = "EURATOM" THEN "Euratom"
    ELSE "EU"

\* `${type}:${year}/${number}`
buildEuDocumentId(type, year, number) == << type, year, number >>

\* The reference extractEuReferences makes of the match m of a pattern at
\* token k; `index` is match.index.
Reference(text, k, m) ==
    LET index == IndexOf(text, k)
        \* text.slice(start, end): the tokens that lie in it whole.
        Slice(start, end) ==
            SelectSeq([j \in 1..Len(text) |->
                          [t |-> text[j], k |-> j,
                           in |-> /\ IndexOf(text, j) >= start
                                  /\ IndexOf(text, j) + Width(text[j]) <= end]],
                      LAMBDA x : x.in)
        type == IF m.typeRaw \in {"regolamento", "regulation"}
                THEN "regulation" ELSE "directive"
        year == normalizeEuYear(m.rawYear)
        number == ToNumber(m.rawNumber)
        context == Slice(Max(0, index - ContextChars),
                         Min(TextLength(text),
                             index + m.length + ContextChars))
    IN  [type |-> type,
         community |-> normalizeCommunity(m.communityRaw),
         year |-> year,
         number |-> number,
         euDocumentId |-> buildEuDocumentId(type, year, number),
         euArticle |-> extractArticleReference(text, context, 1),
         fullCitation |-> << text[k], m.length >>,
         referenceContext |->
             normalizeWhitespace([j \in 1..Len(context) |-> context[j].t]),
         referenceType |-> inferReferenceType(text, context),
         index |-> index]

\* `${euDocumentId}:${euArticle ?? ''}`
DedupeKey(ref) == << ref.euDocumentId, ref.euArticle >>

\* The while loop of one pattern, from token k on: found is the references
\* pushed so far, in order.
RECURSIVE ScanPattern(_, _, _, _)
ScanPattern(text, p, k, found) ==
    IF k > Len(text) THEN found
    ELSE LET m == Captures(p, text[k])
         IN  IF ~m.matched \/ ~Bounded(text, k)
             THEN ScanPattern(text, p, k + 1, found)
             ELSE LET ref == Reference(text, k, m)
                  IN  IF \/ ref.year <= 0
                         \/ ref.number <= 0
                         \/ \E j \in 1..Len(found) :
                                DedupeKey(found[j]) = DedupeKey(ref)
                      THEN ScanPattern(text, p, k + 1, found)
                      ELSE ScanPattern(text, p, k + 1, Append(found, ref))

Patterns == 0..2

extractEuReferences(text) ==
    ScanPattern(text, 2, 1,
        ScanPattern(text, 1, 1,
            ScanPattern(text, 0, 1, << >>)))

\* One turn of `for (const pattern of patterns)`.
EuScan ==
    /\ call.fn = "extractEuReferences"
    /\ ~call.returned
    /\ call.pattern \in Patterns
    /\ call' = [call EXCEPT
                   !.pattern = @ + 1,
                   !.refs = ScanPattern(call.text, call.pattern, 1, @)]
    /\ UNCHANGED << env, lastRequestTime, sessionCookies, callers, crawl,
                    run, census, seeds, censusDisk, wire, audit >>

EuReturn ==
    /\ call.fn = "extractEuReferences"
    /\ ~call.returned
    /\ call.pattern \notin Patterns
    /\ call' = [call EXCEPT !.returned = TRUE]
    /\ UNCHANGED << env, lastRequestTime, sessionCookies, callers, crawl,
                    run, census, seeds, censusDisk, wire, audit >>

\* The texts: at most MaxLexemes lexemes, with a space between one and the
\* next.
Sentence(lexemes) ==
    Join([k \in 1..Len(lexemes) |-> <<lexemes[k]>>], <<" ">>)

SpecEu ==
    /\ LET Lexemes ==
               { "Direttiva (CE) 95/46", "Direttiva 95/46/CE", "Regolamento (UE) 2016/679", "Regolamento (UE) 016/679",
                 "art. 5", "art. 7", "in attuazione", "attuazione", "implement", Passage,
                 "x" }
       IN  \E lexemes \in SeqsUpTo(Lexemes, MaxLexemes) :
               Library([fn |-> "extractEuReferences",
                        text |-> Sentence(lexemes), pattern |-> 0,
                        refs |-> << >>, returned |-> FALSE])
    /\ [][EuScan \/ EuReturn]_vars

\* ---------------------------------------------------------------------------
\* buildDatabase (scripts/ingest.ts): the seed files are loaded into the
\* store in one transaction.  Of the store the model keeps the rows of
\* legal_documents (their id), legal_provisions and eu_references, with the
\* constraints of the schema.

SeedFile(id, provisions) == [id |-> id, provisions |-> provisions]

BuildCall(seedFiles) ==
    [fn |-> "buildDatabase", seedFiles |-> seedFiles, file |-> 1,
     legal_documents |-> << >>, legal_provisions |-> << >>,
     eu_references |-> << >>, primaryImplementationByDocument |-> {},
     totalDuplicateRefs |-> 0, totalConflictingDuplicates |-> 0,
     emptyDocs |-> 0, deduped |-> << >>, threw |-> FALSE,
     returned |-> FALSE]

IsPrimaryWheneverImplements(ref, primaryKey, marked) ==
    ref.referenceType = "implements"

\* ref.referenceType === 'implements' &&
\*     !primaryImplementationByDocument.has(primaryKey)
IsPrimary(ref, primaryKey, marked) ==
    /\ ref.referenceType = "implements"
    /\ primaryKey \notin marked

\* The loop over the references extracted from one provision, from the
\* j-th on; an insert that fails is ignored.
RECURSIVE InsertReferences(_, _, _, _, _)
InsertReferences(frame, seedId, prov, extractedRefs, j) ==
    IF j > Len(extractedRefs) THEN frame
    ELSE LET ref == extractedRefs[j]
             primaryKey == << seedId, ref.euDocumentId >>
             isPrimary ==
                 IsPrimary(ref, primaryKey,
                           frame.primaryImplementationByDocument)
             row == [source_id |-> << seedId, prov.provision_ref >>,
                     document_id |-> seedId,
                     eu_document_id |-> ref.euDocumentId,
                     eu_article |-> ref.euArticle,
                     reference_type |-> ref.referenceType,
                     is_primary_implementation |-> isPrimary]
             \* UNIQUE(source_id, eu_document_id, eu_article); a NULL
             \* eu_article ("") is different from every other.
             ReferenceConflict(rows) ==
                 /\ row.eu_article # ""
                 /\ \E k \in 1..Len(rows) :
                       /\ rows[k].source_id = row.source_id
                       /\ rows[k].eu_document_id = row.eu_document_id
                       /\ rows[k].eu_article = row.eu_article
         IN  InsertReferences(
                 [frame EXCEPT
                     !.primaryImplementationByDocument =
                         IF isPrimary THEN @ \cup {primaryKey} ELSE @,
                     !.eu_references =
                         IF ReferenceConflict(@) THEN @
                         ELSE Append(@, row)],
                 seedId, prov, extractedRefs, j + 1)

\* The loop over the deduped provisions of one seed, from the i-th on; an
\* insert that fails throws.
RECURSIVE InsertProvisions(_, _, _, _)
InsertProvisions(frame, seedId, deduped, i) ==
    IF frame.threw \/ i > Len(deduped) THEN frame
    ELSE LET prov == deduped[i]
             \* UNIQUE(document_id, provision_ref)
             ProvisionConflict(rows) ==
                 \E k \in 1..Len(rows) :
                     /\ rows[k].document_id = seedId
                     /\ rows[k].provision_ref = prov.provision_ref
         IN  IF ProvisionConflict(frame.legal_provisions)
             THEN [frame EXCEPT !.threw = TRUE]
             ELSE InsertProvisions(
                      InsertReferences(
                          [frame EXCEPT !.legal_provisions =
                              Append(@, [document_id |-> seedId,
                                         provision_ref |-> prov.provision_ref,
                                         title |-> prov.title,
                                         content |-> prov.content])],
                          seedId, prov, extractEuReferences(prov.content), 1),
                      seedId, deduped, i + 1)

\* An exception leaves the transaction: its inserts are rolled back and the
\* process ends.
RollBack(frame) ==
    [frame EXCEPT !.threw = TRUE, !.legal_documents = << >>,
                  !.legal_provisions = << >>, !.eu_references = << >>]

\* One turn of `for (const file of seedFiles)`.
BuildSeed ==
    /\ call.fn = "buildDatabase"
    /\ ~call.returned
    /\ ~call.threw
    /\ call.file <= Len(call.seedFiles)
    /\ LET seed == call.seedFiles[call.file]
           inserted == [call EXCEPT !.legal_documents = Append(@, seed.id),
                                    !.file = @ + 1]
       IN  IF seed.id \in Range(call.legal_documents)
           THEN call' = RollBack(call)
           ELSE IF Len(seed.provisions) = 0
           THEN call' = [inserted EXCEPT !.emptyDocs = @ + 1]
           ELSE LET d == dedupeProvisions(seed.provisions)
                    loaded == InsertProvisions(
                        [inserted EXCEPT
                            !.deduped = d.deduped,
                            !.totalDuplicateRefs =
                                @ + d.stats.duplicate_refs,
                            !.totalConflictingDuplicates =
                                @ + d.stats.conflicting_duplicates],
                        seed.id, d.deduped, 1)
                IN  call' = IF loaded.threw THEN RollBack(loaded) ELSE loaded
    /\ UNCHANGED << env, lastRequestTime, sessionCookies, callers, crawl,
                    run, census, seeds, censusDisk, wire, audit >>

\* Every seed file is loaded: the transaction commits.
BuildFinish ==
    /\ call.fn = "buildDatabase"
    /\ ~call.returned
    /\ ~call.threw
    /\ call.file > Len(call.seedFiles)
    /\ call' = [call EXCEPT !.returned = TRUE]
    /\ UNCHANGED << env, lastRequestTime, sessionCookies, callers, crawl,
                    run, census, seeds, censusDisk, wire, audit >>

\* The seed directory: a seed of at most MaxProvisions provisions whose
\* bodies cite foreign instruments, followed by a seed of at most one
\* provision, which may have the same id.
SpecBuild ==
    /\ LET CitingTexts ==
               { Sentence(<<"Direttiva (CE) 95/46">>),
                 Sentence(<<"in attuazione", "Direttiva (CE) 95/46">>),
                 Sentence(<<"in attuazione", "Direttiva (CE) 95/46", "Regolamento (UE) 2016/679">>),
                 Sentence(<<"Direttiva (CE) 95/46", Passage, "in attuazione", "Direttiva 95/46/CE",
                            "art. 5">>) }
           CitingProvisions ==
               { Provision(ref, << >>, content) :
                   ref \in Refs, content \in CitingTexts }
       IN  \E first \in SeqsUpTo(CitingProvisions, MaxProvisions) :
           \E second \in SeqsUpTo(CitingProvisions, 1) :
           \E id \in {"dlgs-196-2003", "legge-190-2012"} :
               Library(BuildCall(<< SeedFile("dlgs-196-2003", first),
                                    SeedFile(id, second) >>))
    /\ [][BuildSeed \/ BuildFinish]_vars

\* ---------------------------------------------------------------------------
\* The citation parser (src/citation/parser.ts).  A citation is a sequence
\* of lexemes: a word with the full stops that belong to it ("Art.",
\* "D.Lgs."), a run of at most four digits, a punctuation mark or
\* one whitespace character.  What the classes of the regular expressions
\* make of a lexeme is tabulated; the expressions themselves are translated
\* construct by construct and matched as the engine matches them: from the
\* start of the text, greedy, backtracking, without an anchor at the end.

\* The numerals that occur in the citations.
Numerals == {"1", "5", "30", "196", "615", "999", "1942", "2003"}

\* What the expressions see of a lexeme: its lower-case form (they are all
\* /i), its digits when it is a run of digits, and whether it is a run of
\* word characters (\w+).
Lexeme(t) ==
    [lower |->
         CASE t = "Art." -> "art."
           [] t = "Art" -> "art"
           [] t = "D.Lgs." -> "d.lgs."
           [] t = "D.L." -> "d.l."
           [] t = "L." -> "l."
           [] t = "L" -> "l"
           [] t = "D.P.R." -> "d.p.r."
           [] t = "D.P.R" -> "d.p.r"
           [] t = "R.D." -> "r.d."
           [] t = "Legge" -> "legge"
           [] t = "Decreto" -> "decreto"
           [] t = "Decreto-legge" -> "decreto-legge"
           [] t = "Regio" -> "regio"
           [] t = "Presidente" -> "presidente"
           [] t = "Repubblica" -> "repubblica"
           [] t = "Codice" -> "codice"
           [] t = "Penale" -> "penale"
           [] t = "CODICE" -> "codice"
           [] t = "PENALE" -> "penale"
           [] t = "Militare" -> "militare"
           [] t = "Civile" -> "civile"
           [] t = "Privacy" -> "privacy"
           [] t \in {"Ter", "TER"} -> "ter"
           [] OTHER -> t,
     digits |->
         CASE t = "1" -> <<"1">>
           [] t = "5" -> <<"5">>
           [] t = "30" -> <<"3", "0">>
           [] t = "196" -> <<"1", "9", "6">>
           [] t = "615" -> <<"6", "1", "5">>
           [] t = "999" -> <<"9", "9", "9">>
           [] t = "1942" -> <<"1", "9", "4", "2">>
           [] t = "2003" -> <<"2", "0", "0", "3">>
           [] OTHER -> << >>,
     word |->
         t \in Numerals \cup
               {"Art", "L", "Legge", "Decreto", "legislativo", "Regio",
                "decreto", "del", "Presidente", "della", "Repubblica",
                "Codice", "Penale", "comma", "giugno", "legge", "dlgs", "dl",
                "dpr", "rd", "art", "ter", "x", "CODICE", "PENALE",
                "Militare", "Civile", "Privacy", "codice", "penale",
                "militare"}]

\* The matcher.  A state is the position of the next lexeme and what the
\* groups have captured (Undefined for a group that took no part); Run gives
\* the states in which the node can end from state st, in the order in
\* which the engine tries them, so that the first state of the whole
\* expression is the match.
RECURSIVE Run(_, _, _)
RECURSIVE RunAll(_, _, _)
RECURSIVE RunSeq(_, _, _)

RunAll(node, text, sts) ==
    IF Len(sts) = 0 THEN << >>
    ELSE Run(node, text, Head(sts)) \o RunAll(node, text, Tail(sts))

RunSeq(items, text, sts) ==
    IF Len(items) = 0 \/ Len(sts) = 0 THEN sts
    ELSE RunSeq(Tail(items), text, RunAll(Head(items), text, sts))

Run(node, text, st) ==
    LET here == st.pos <= Len(text)
        step == << [st EXCEPT !.pos = @ + 1] >>
    IN  CASE node.op = "lit" ->
                 IF here /\ Lexeme(text[st.pos]).lower \in node.set
                 THEN step ELSE << >>
          [] node.op = "s" ->
                 IF here /\ IsSpace(text[st.pos]) THEN step ELSE << >>
          [] node.op = "d" ->
                 IF here /\ Len(Lexeme(text[st.pos]).digits) \in node.len
                 THEN step ELSE << >>
          [] node.op = "w" ->
                 IF here /\ Lexeme(text[st.pos]).word THEN step ELSE << >>
          [] node.op = "seq" -> RunSeq(node.items, text, <<st>>)
          [] node.op = "alt" ->
                 IF Len(node.items) = 0 THEN << >>
                 ELSE Run(Head(node.items), text, st)
                          \o Run([node EXCEPT !.items = Tail(@)], text, st)
          [] node.op = "opt" -> Run(node.item, text, st) \o <<st>>
          [] node.op = "star" ->
                 RunAll(node, text, Run(node.item, text, st)) \o <<st>>
          [] node.op = "cap" ->
                 LET ends == Run(node.item, text, st)
                 IN  [k \in 1..Len(ends) |->
                         [ends[k] EXCEPT !.caps[node.group] =
                              SubSeq(text, st.pos, ends[k].pos - 1)]]

\* The expressions, by the name of their constant; shortMatch and
\* parenMatch are the two expressions of normalizeDocumentIdentifier
\* (src/utils/statute-id.ts).
Grammar(name) ==
    LET Lit(set) == [op |-> "lit", set |-> set]
        S == [op |-> "s"]
        D(len) == [op |-> "d", len |-> len]
        W == [op |-> "w"]
        Seq_(items) == [op |-> "seq", items |-> items]
        Alt(items) == [op |-> "alt", items |-> items]
        Opt(item) == [op |-> "opt", item |-> item]
        Star(item) == [op |-> "star", item |-> item]
        Plus(item) == Seq_(<< item, Star(item) >>)
        Cap(group, item) == [op |-> "cap", group |-> group, item |-> item]
        \* Art\.?\s+
        Art == Seq_(<< Lit({"art.", "art"}), Plus(S) >>)
        \* \d+(?:-(?:bis|ter|quater|...))?
        ArticleRef ==
            Seq_(<< D(1..4),
                    Opt(Seq_(<< Lit({"-"}),
                                Lit({"bis", "ter", "quater", "quinquies",
                                     "sexies", "septies", "octies", "novies",
                                     "decies"}) >>)) >>)
        \* \s*(?:,\s*(?:comma\s+(\d+)\s*,\s*)?)?(?:,\s*)?
        Separator ==
            Seq_(<< Star(S),
                    Opt(Seq_(<< Lit({","}), Star(S),
                                Opt(Seq_(<< Lit({"comma"}), Plus(S),
                                            Cap(2, D(1..4)), Star(S),
                                            Lit({","}), Star(S) >>)) >>)),
                    Opt(Seq_(<< Lit({","}), Star(S) >>)) >>)
        \* D\.Lgs\.?|D\.L\.?|L\.?|D\.P\.R\.?|R\.D\.?|Legge|
        \* Decreto\s+legislativo|Decreto-legge
        ShortType ==
            Alt(<< Lit({"d.lgs.", "d.lgs"}), Lit({"d.l.", "d.l"}),
                   Lit({"l.", "l"}), Lit({"d.p.r.", "d.p.r"}),
                   Lit({"r.d.", "r.d"}), Lit({"legge"}),
                   Seq_(<< Lit({"decreto"}), Plus(S),
                           Lit({"legislativo"}) >>),
                   Lit({"decreto-legge"}) >>)
        \* \s+(?:n\.?\s*)?(\d+)\s*\/\s*(\d{4})
        NumberYear ==
            Seq_(<< Plus(S), Opt(Seq_(<< Lit({"n.", "n"}), Star(S) >>)),
                    Cap(4, D(1..4)), Star(S), Lit({"/"}), Star(S),
                    Cap(5, D({4})) >>)
    IN  CASE name = "COMMA_CITATION" ->
                 Seq_(<< Art, Cap(1, ArticleRef), Star(S), Lit({","}),
                         Star(S), Lit({"comma"}), Plus(S), Cap(2, D(1..4)),
                         Star(S), Lit({","}), Star(S), Cap(3, ShortType),
                         NumberYear >>)
          [] name = "ID_BASED_CITATION" ->
                 Seq_(<< Cap(1, Lit({"legge", "dlgs", "dl", "dpr", "rd"})),
                         Lit({"-"}), Cap(2, D(1..4)), Lit({"-"}),
                         Cap(3, D({4})), Star(S), Opt(Lit({","})), Star(S),
                         Lit({"art.", "art"}), Star(S), Cap(4, ArticleRef),
                         Opt(Seq_(<< Star(S), Opt(Lit({","})), Star(S),
                                     Lit({"comma"}), Plus(S),
                                     Cap(5, D(1..4)) >>)) >>)
          [] name = "CODICE_CITATION" ->
                 Seq_(<< Art, Cap(1, ArticleRef), Separator,
                         Cap(3, Seq_(<< Lit({"codice"}), Plus(S), W,
                                        Opt(Seq_(<< Plus(S), W >>)) >>)) >>)
          [] name = "FULL_CITATION" ->
                 Seq_(<< Art, Cap(1, ArticleRef), Separator,
                         Cap(3, Alt(<< Seq_(<< Lit({"decreto"}), Plus(S),
                                               Lit({"legislativo"}) >>),
                                       Lit({"decreto-legge"}),
                                       Seq_(<< Lit({"decreto"}), Plus(S),
                                               Lit({"legge"}) >>),
                                       Lit({"legge"}),
                                       Seq_(<< Lit({"regio"}), Plus(S),
                                               Lit({"decreto"}) >>),
                                       Lit({"d.p.r.", "d.p.r"}) >>)),
                         Plus(S), Cap(4, D(1..2)), Plus(S),
                         Cap(5, Lit({"gennaio", "febbraio", "marzo", "aprile",
                                     "maggio", "giugno", "luglio", "agosto",
                                     "settembre", "ottobre", "novembre",
                                     "dicembre"})),
                         Plus(S), Cap(6, D({4})), Star(S), Opt(Lit({","})),
                         Star(S), Lit({"n.", "n"}), Star(S),
                         Cap(7, D(1..4)) >>)
          [] name = "SHORT_CITATION" ->
                 Seq_(<< Art, Cap(1, ArticleRef), Separator,
                         Cap(3, ShortType), NumberYear >>)
          [] name = "shortMatch" ->
                 Seq_(<< Cap(1, Alt(ShortType.items
                                        \o << Seq_(<< Lit({"decreto"}),
                                                      Plus(S),
                                                      Lit({"legge"}) >>) >>)),
                         Plus(S), Opt(Seq_(<< Lit({"n.", "n"}), Star(S) >>)),
                         Cap(2, D(1..4)), Star(S), Lit({"/"}), Star(S),
                         Cap(3, D({4})) >>)
          [] name = "parenMatch" ->
                 Seq_(<< Cap(1, ShortType), Plus(S),
                         Opt(Seq_(<< Lit({"n.", "n"}), Star(S) >>)),
                         Cap(2, D(1..4)), Star(S), Lit({"/"}), Star(S),
                         Cap(3, D({4})), Star(S), Lit({"("}) >>)

\* trimmed.match(expression): the captures of the match and the number of
\* lexemes of match[0], None without a match.
MatchOf(name, trimmed) ==
    LET ends == Run(Grammar(name), trimmed,
                    [pos |-> 1, caps |-> [g \in 1..7 |-> Undefined]])
    IN  IF Len(ends) = 0 THEN None
        ELSE [caps |-> ends[1].caps, length |-> ends[1].pos - 1]

\* parseArticleRef: raw is the text of the first group, a numeral with or
\* without "-" and an ordinal suffix.
parseArticleRef(raw) ==
    IF Len(raw) = 3
    THEN [article |-> [v |-> raw[1]], suffix |-> [v |-> Lexeme(raw[3]).lower]]
    ELSE [article |-> [v |-> raw[1]], suffix |-> None]

\* resolveDocType: TYPE_MAP[raw.toLowerCase().replace(/\s+/g, ' ').trim()]
\* ?? 'unknown'
resolveDocType(raw) ==
    LET lower == normalizeWhitespace(
                     [k \in 1..Len(raw) |-> Lexeme(raw[k]).lower])
    IN  CASE lower \in {<<"decreto", " ", "legislativo">>, <<"d.lgs.">>,
                        <<"d.lgs">>, <<"dlgs">>} -> "dlgs"
          [] lower \in {<<"decreto-legge">>, <<"decreto", " ", "legge">>,
                        <<"d.l.">>, <<"d.l">>, <<"dl">>} -> "dl"
          [] lower \in {<<"legge">>, <<"l.">>} -> "legge"
          [] lower \in {<<"d.p.r.">>, <<"dpr">>} -> "dpr"
          [] lower \in {<<"r.d.">>, <<"rd">>,
                        <<"regio", " ", "decreto">>} -> "rd"
          [] lower = <<"codice">> -> "codice"
          [] OTHER -> "unknown"

\* `${n}` for a number n: its numeral.
Decimal(n) == CHOOSE t \in Numerals : ToNumber(Lexeme(t).digits) = n

\* `${type}-${number}-${year}`
buildDocumentIdYearFirst(type, number, year) ==
    << type, "-", Decimal(year), "-", Decimal(number) >>

buildDocumentId(type, number, year) ==
    << type, "-", Decimal(number), "-", Decimal(year) >>

\* The order in which parseCitation tries the expressions.
GrammarOrderShortFirst ==
    << "SHORT_CITATION", "ID_BASED_CITATION", "CODICE_CITATION",
       "FULL_CITATION", "COMMA_CITATION" >>

GrammarOrder ==
    << "COMMA_CITATION", "ID_BASED_CITATION", "CODICE_CITATION",
       "FULL_CITATION", "SHORT_CITATION" >>

\* The expression whose branch of parseCitation returns, "" when the last
\* return is reached.
MatchingGrammar(trimmed) ==
    LET matching == {k \in 1..Len(GrammarOrder) :
                        MatchOf(GrammarOrder[k], trimmed) # None}
    IN  IF matching = {} THEN ""
        ELSE GrammarOrder[CHOOSE k \in matching : \A j \in matching : k <= j]

\* A ParsedCitation: an optional field is None or [v |-> its value].
ParsedCitation(valid, type, ref, comma, number, year, title, error) ==
    [valid |-> valid, type |-> type,
     article |-> ref.article, suffix |-> ref.suffix, comma |-> comma,
     number |-> number, year |-> year, title |-> title,
     document_id |-> IF number = None THEN None
                     ELSE [v |-> buildDocumentId(type, number.v, year.v)],
     error |-> error]

UnparseableWithoutText(trimmed) ==
    ParsedCitation(FALSE, "unknown", [article |-> None, suffix |-> None],
                   None, None, None, None,
                   [v |-> <<"Could not parse Italian citation">>])

\* The last return of parseCitation.
Unparseable(trimmed) ==
    ParsedCitation(FALSE, "unknown", [article |-> None, suffix |-> None],
                   None, None, None, None,
                   [v |-> <<"Could not parse Italian citation: \"">>
                              \o trimmed \o <<"\"">>])

parseCitation(citation) ==
    LET trimmed == trim(citation)
        name == MatchingGrammar(trimmed)
        match == MatchOf(name, trimmed).caps
        \* match[g] || undefined, for a group of one numeral
        Group(g) == IF match[g] = Undefined THEN None ELSE [v |-> match[g][1]]
        \* parseInt(match[g], 10)
        Number(g) == [v |-> ToNumber(Lexeme(match[g][1]).digits)]
    IN  CASE name = "COMMA_CITATION" ->
                 ParsedCitation(TRUE, resolveDocType(match[3]),
                                parseArticleRef(match[1]), Group(2),
                                Number(4), Number(5), None, None)
          [] name = "ID_BASED_CITATION" ->
                 ParsedCitation(TRUE, Lexeme(match[1][1]).lower,
                                parseArticleRef(match[4]), Group(5),
                                Number(2), Number(3), None, None)
          [] name = "CODICE_CITATION" ->
                 ParsedCitation(TRUE, "codice", parseArticleRef(match[1]),
                                Group(2), None, None,
                                [v |-> trim(match[3])], None)
          [] name = "FULL_CITATION" ->
                 ParsedCitation(TRUE, resolveDocType(match[3]),
                                parseArticleRef(match[1]), Group(2),
                                Number(7), Number(6), None, None)
          [] name = "SHORT_CITATION" ->
                 ParsedCitation(TRUE, resolveDocType(match[3]),
                                parseArticleRef(match[1]), Group(2),
                                Number(4), Number(5), None, None)
          [] OTHER -> Unparseable(trimmed)

\* formatCitation (src/citation/formatter.ts): the text, as lexemes.
formatCitation(parsed, format) ==
    LET articleRef ==
            <<parsed.article.v>> \o
                (IF parsed.suffix # None THEN <<"-", parsed.suffix.v>>
                 ELSE << >>)
        commaRef ==
            IF parsed.comma # None
            THEN <<",", " ", "comma", " ", parsed.comma.v>> ELSE << >>
        pinpoint == <<"Art.", " ">> \o articleRef \o commaRef
        \* TYPE_FULL_NAME[parsed.type] ?? parsed.type
        typeName ==
            CASE parsed.type = "dlgs" -> <<"Decreto", " ", "legislativo">>
              [] parsed.type = "dl" -> <<"Decreto-legge">>
              [] parsed.type = "legge" -> <<"Legge">>
              [] parsed.type = "dpr" ->
                     <<"Decreto", " ", "del", " ", "Presidente", " ", "della",
                       " ", "Repubblica">>
              [] parsed.type = "rd" -> <<"Regio", " ", "decreto">>
              [] parsed.type = "codice" -> << >>
              [] OTHER -> <<parsed.type>>
        \* TYPE_SHORT_NAME[parsed.type] ?? parsed.type
        typeAbbrev ==
            CASE parsed.type = "dlgs" -> <<"D.Lgs.">>
              [] parsed.type = "dl" -> <<"D.L.">>
              [] parsed.type = "legge" -> <<"L.">>
              [] parsed.type = "dpr" -> <<"D.P.R.">>
              [] parsed.type = "rd" -> <<"R.D.">>
              [] parsed.type = "codice" -> << >>
              [] OTHER -> <<parsed.type>>
        numbered ==
            /\ parsed.number # None /\ parsed.number.v # 0
            /\ parsed.year # None /\ parsed.year.v # 0
        numberYear == <<Decimal(parsed.number.v), "/", Decimal(parsed.year.v)>>
    IN  IF ~parsed.valid \/ parsed.article = None THEN << >>
        ELSE IF format \notin {"full", "short"} THEN pinpoint
        ELSE IF parsed.type = "codice" /\ parsed.title # None
        THEN pinpoint \o <<",", " ">> \o parsed.title.v
        ELSE IF ~numbered THEN pinpoint
        ELSE IF format = "full"
        THEN trim(pinpoint \o <<",", " ">> \o typeName \o <<" ", "n.", " ">>
                      \o numberYear)
        ELSE trim(pinpoint \o <<",", " ">> \o typeAbbrev \o <<" ">>
                      \o numberYear)

FormatCitation ==
    /\ call.fn = "formatCitation"
    /\ call' = [call EXCEPT
                   !.fn = "parseCitation",
                   !.citation = formatCitation(call.origin.parsed,
                                               call.origin.format)]
    /\ UNCHANGED << env, lastRequestTime, sessionCookies, callers, crawl,
                    run, census, seeds, censusDisk, wire, audit >>

ParseCitation ==
    /\ call.fn = "parseCitation"
    /\ ~call.returned
    /\ call' = [call EXCEPT
                   !.grammar = MatchingGrammar(trim(call.citation)),
                   !.result = parseCitation(call.citation),
                   !.returned = TRUE]
    /\ UNCHANGED << env, lastRequestTime, sessionCookies, callers, crawl,
                    run, census, seeds, censusDisk, wire, audit >>

\* The calls, parseCitation on a text or formatCitation on a structured
\* citation, whose text parseCitation is then called with: a text made of
\* an opening, an article reference, an optional paragraph, the
\* designation of an Act in one of the surface forms (or none of them), and
\* what may follow it; or a structured citation of an Act of every numbered
\* type, formatted in the full and in the short style.
SpecCitation ==
    /\ LET Articles == { <<"1">>, <<"615", "-", "ter">> }
           Commas == { << >>, <<",", " ", "comma", " ", "1">> }
           Acts ==
               { <<"D.Lgs.", " ", "196", "/", "2003">>,
                 <<"L", " ", "196", "/", "2003">>,
                 <<"D.P.R", " ", "n.", " ", "196", "/", "2003">>,
                 <<"Legge", " ", "5", "/", "999">>,
                 <<"Decreto", " ", "legislativo", " ", "30", " ", "giugno",
                   " ", "2003", ",", " ", "n.", " ", "196">>,
                 <<"Codice", " ", "Penale">>,
                 <<"x">> }
           Tails == { << >>, <<" ">>, <<" ", "x">>, <<",", " ", "x">> }
           Texts ==
               { lead \o <<"Art.", " ">> \o article \o comma
                     \o <<",", " ">> \o act \o tail :
                   lead \in { << >>, <<" ">> }, article \in Articles,
                   comma \in Commas, act \in Acts, tail \in Tails }
               \cup
               { <<"dlgs", "-", "196", "-", "2003", ",", " ", "art.", " ">>
                     \o article \o comma \o tail :
                   article \in Articles, comma \in Commas, tail \in Tails }
               \cup { << >>, <<" ">>, <<"x">> }
           Structured ==
               { [parsed |->
                      ParsedCitation(TRUE, type,
                                     [article |-> [v |-> article],
                                      suffix |-> suffix],
                                     comma, [v |-> number], [v |-> year],
                                     None, None),
                  format |-> format] :
                   type \in {"legge", "dlgs", "dl", "dpr", "rd"},
                   article \in {"1", "615"},
                   suffix \in {None, [v |-> "ter"]},
                   comma \in {None, [v |-> "1"]},
                   number \in {5, 196}, year \in {1942, 2003},
                   format \in {"full", "short"} }
       IN  \/ \E citation \in Texts :
                  Library([fn |-> "parseCitation", origin |-> None,
                           citation |-> citation, grammar |-> "",
                           result |-> None, returned |-> FALSE])
           \/ \E origin \in Structured :
                  Library([fn |-> "formatCitation", origin |-> origin,
                           citation |-> << >>, grammar |-> "",
                           result |-> None, returned |-> FALSE])
    /\ [][FormatCitation \/ ParseCitation]_vars

\* ---------------------------------------------------------------------------
\* The validator (src/citation/validator.ts) and the resolution of an Act
\* (src/utils/statute-id.ts).  The database is a record of the rows of
\* legal_documents, [id, title, short_name, status] with short_name None
\* when it is NULL, and of the rows of legal_provisions,
\* [document_id, provision_ref, section]; the texts of the columns are
\* sequences of lexemes.  A statement that may return any one of several
\* rows (LIMIT 1 without an order, or with an order that leaves a tie) gives
\* a set of outcomes.

\* normalizeDocumentIdentifier: the canonical identifier, as [v |-> id], or
\* None.
normalizeDocumentIdentifier(input) ==
    LET \* /^(legge|dlgs|dl|dpr|rd)-\d+-\d{4}$/.test(trimmed)
        Canonical(trimmed) ==
            /\ Len(trimmed) = 5
            /\ trimmed[1] \in {"legge", "dlgs", "dl", "dpr", "rd"}
            /\ trimmed[2] = "-" /\ Len(Lexeme(trimmed[3]).digits) >= 1
            /\ trimmed[4] = "-" /\ Len(Lexeme(trimmed[5]).digits) = 4
        Identifier(match) ==
            LET typeRaw ==
                    normalizeWhitespace(
                        [k \in 1..Len(match[1]) |->
                            Lexeme(match[1][k]).lower])
                \* TYPE_ABBREVIATIONS[typeRaw]
                \*     ?? typeRaw.replace(/[.\s]/g, '')
                type ==
                    CASE typeRaw \in {<<"d.lgs.">>, <<"d.lgs">>, <<"dlgs">>,
                                      <<"decreto", " ", "legislativo">>}
                             -> "dlgs"
                      [] typeRaw \in {<<"d.l.">>, <<"d.l">>, <<"dl">>,
                                      <<"decreto-legge">>,
                                      <<"decreto", " ", "legge">>} -> "dl"
                      [] typeRaw \in {<<"l.">>, <<"legge">>} -> "legge"
                      [] typeRaw \in {<<"d.p.r.">>, <<"dpr">>} -> "dpr"
                      [] typeRaw \in {<<"r.d.">>, <<"rd">>,
                                      <<"regio", " ", "decreto">>} -> "rd"
                      [] typeRaw = <<"d.p.r">> -> "dpr"
                      [] typeRaw = <<"r.d">> -> "rd"
                      [] OTHER -> typeRaw[1]
            IN  << type, "-", match[2][1], "-", match[3][1] >>
        Normalized(trimmed, shortMatch, parenMatch) ==
            IF Canonical(trimmed) THEN [v |-> trimmed]
            ELSE IF shortMatch # None
            THEN [v |-> Identifier(shortMatch.caps)]
            ELSE IF parenMatch # None
            THEN [v |-> Identifier(parenMatch.caps)]
            ELSE None
    IN  Normalized(trim(input), MatchOf("shortMatch", trim(input)),
                   MatchOf("parenMatch", trim(input)))

\* LENGTH(text) of SQLite: the number of characters of the text.
RECURSIVE LENGTH(_)
LENGTH(text) ==
    IF Len(text) = 0 THEN 0
    ELSE (CASE Lexeme(Head(text)).digits # << >>
                   -> Len(Lexeme(Head(text)).digits)
            [] Lexeme(Head(text)).lower \in {"codice", "penale", "civile"}
                   -> 6
            [] Lexeme(Head(text)).lower = "militare" -> 8
            [] Lexeme(Head(text)).lower \in {"privacy", "decreto"} -> 7
            [] Lexeme(Head(text)).lower \in {"regio", "legge"} -> 5
            [] Lexeme(Head(text)).lower \in {"dlgs"} -> 4
            [] Lexeme(Head(text)).lower \in {"n.", "cp"} -> 2
            [] Lexeme(Head(text)).lower \in {"cpm"} -> 3
            [] OTHER -> 1)
         + LENGTH(Tail(text))

\* The rows that satisfy the WHERE clause of each of the four statements of
\* resolveExistingStatuteId, by the name of the variable that receives the
\* row: = compares the texts as they are, LOWER folds the case, and LIKE
\* with '%' || inputId || '%' holds of a text in which inputId occurs, in
\* either case (the inputs hold neither % nor _, and occur in a text only
\* as whole lexemes).
MatchingRows(db, inputId) ==
    LET LOWER(text) == [k \in 1..Len(text) |-> Lexeme(text[k]).lower]
        Like(text) ==
            \E i \in 0..(Len(text) - Len(inputId)) :
                LOWER(SubSeq(text, i + 1, i + Len(inputId))) = LOWER(inputId)
        WithId(normalized) ==
            IF normalized = None THEN {}
            ELSE { d \in db.legal_documents : d.id = normalized.v }
    IN  [exact |-> { d \in db.legal_documents : d.id = inputId },
         normMatch |-> WithId(normalizeDocumentIdentifier(inputId)),
         exactTitle |->
             { d \in db.legal_documents :
                 \/ LOWER(d.title) = LOWER(inputId)
                 \/ /\ d.short_name # None
                    /\ LOWER(d.short_name.v) = LOWER(inputId) },
         byTitle |->
             LET rows == { d \in db.legal_documents :
                             \/ Like(d.title)
                             \/ d.short_name # None /\ Like(d.short_name.v) }
             \* ORDER BY LENGTH(title) ASC
             IN  { d \in rows :
                     \A e \in rows : LENGTH(d.title) <= LENGTH(e.title) }]

\* The outcomes of resolveExistingStatuteId(db, inputId): the identifier
\* returned, None for null, and the statements that were run.
resolveExistingStatuteIdTitleFirst(db, inputId) ==
    LET Return(set, queries) ==
            { [id |-> [v |-> d.id], queries |-> queries] : d \in set }
        Resolve(rows) ==
            IF rows.exactTitle # {}
            THEN Return(rows.exactTitle, <<"exactTitle">>)
            ELSE IF rows.exact # {}
            THEN Return(rows.exact, <<"exactTitle", "exact">>)
            ELSE IF rows.normMatch # {}
            THEN Return(rows.normMatch,
                        <<"exactTitle", "exact", "normMatch">>)
            ELSE IF rows.byTitle # {}
            THEN Return(rows.byTitle,
                        <<"exactTitle", "exact", "normMatch", "byTitle">>)
            ELSE { [id |-> None,
                    queries |-> <<"exactTitle", "exact", "normMatch",
                                  "byTitle">>] }
    IN  Resolve(MatchingRows(db, inputId))

resolveExistingStatuteId(db, inputId) ==
    LET Return(set, queries) ==
            { [id |-> [v |-> d.id], queries |-> queries] : d \in set }
        \* second: the statements up to the second, which is run when
        \* inputId has a canonical form
        Resolve(rows, second) ==
            IF rows.exact # {} THEN Return(rows.exact, <<"exact">>)
            ELSE IF rows.normMatch # {} THEN Return(rows.normMatch, second)
            ELSE IF rows.exactTitle # {}
            THEN Return(rows.exactTitle, second \o <<"exactTitle">>)
            ELSE IF rows.byTitle # {}
            THEN Return(rows.byTitle,
                        second \o <<"exactTitle", "byTitle">>)
            ELSE { [id |-> None,
                    queries |-> second \o <<"exactTitle", "byTitle">>] }
    IN  Resolve(MatchingRows(db, inputId),
                IF normalizeDocumentIdentifier(inputId) = None
                THEN <<"exact">> ELSE <<"exact", "normMatch">>)

\* A ValidationResult: document_title and status are None when absent.
ValidationResult(parsed, document, provisionExists, warnings) ==
    [citation |-> parsed,
     document_exists |-> document # None,
     provision_exists |-> provisionExists,
     document_title |-> IF document = None THEN None
                        ELSE [v |-> document.v.title],
     status |-> IF document = None THEN None ELSE [v |-> document.v.status],
     warnings |-> warnings]

\* The return of validateCitation when docId is null or the row is gone.
NotFoundTwice(parsed, searchTerm) ==
    ValidationResult(parsed, None, FALSE,
                     << <<"Document \"">> \o searchTerm
                            \o <<"\" not found in database">>,
                        <<"Invalid citation format">> >>)

NotFound(parsed, searchTerm) ==
    ValidationResult(parsed, None, FALSE,
                     << <<"Document \"">> \o searchTerm
                            \o <<"\" not found in database">> >>)

\* The warnings of a citation whose Act is the row doc: what is pushed
\* for its status, then what is pushed after the lookup of the provision.
WarningsOfProvisionFirst(doc, articleRef, provisionExists) ==
    IF ~provisionExists
    THEN << <<"Article ">> \o articleRef \o <<" not found in ">>
                \o doc.title >>
    ELSE IF doc.status = "repealed"
    THEN << <<"This law has been repealed">> >>
    ELSE << >>

Warnings(doc, articleRef, provisionExists) ==
    (IF doc.status = "repealed"
     THEN << <<"This law has been repealed">> >> ELSE << >>)
        \o (IF ~provisionExists
            THEN << <<"Article ">> \o articleRef \o <<" not found in ">>
                        \o doc.title >>
            ELSE << >>)

\* The outcomes of validateCitation(db, citation): the result and the
\* statements that were run, those of resolveExistingStatuteId first.
validateCitation(db, citation) ==
    LET Validated(parsed) ==
        LET \* docId after the two calls of resolveExistingStatuteId
            byId == IF parsed.document_id # None
                    THEN resolveExistingStatuteId(db, parsed.document_id.v)
                    ELSE { [id |-> None, queries |-> << >>] }
            resolved ==
                UNION { IF r.id = None /\ parsed.title # None
                        THEN { [t EXCEPT !.queries = r.queries \o @] :
                                 t \in resolveExistingStatuteId(
                                           db, parsed.title.v) }
                        ELSE {r} : r \in byId }
            \* parsed.document_id ?? parsed.title ?? ...
            searchTerm ==
                IF parsed.document_id # None THEN parsed.document_id.v
                ELSE IF parsed.title # None THEN parsed.title.v
                ELSE <<parsed.type, "-", "undefined", "-", "undefined">>
            articleRef ==
                IF parsed.suffix # None
                THEN <<parsed.article.v, "-", parsed.suffix.v>>
                ELSE <<parsed.article.v>>
            provRef == <<"art">> \o articleRef
            Found(r) ==
                LET rows == { d \in db.legal_documents : d.id = r.id.v }
                    doc == CHOOSE d \in rows : TRUE
                    prov == { p \in db.legal_provisions :
                                /\ p.document_id = doc.id
                                /\ \/ p.provision_ref = provRef
                                   \/ p.section = articleRef
                                   \/ p.provision_ref = articleRef
                                   \/ p.section = provRef }
                IN  IF rows = {}
                    THEN [result |-> NotFound(parsed, r.id.v),
                          queries |-> r.queries \o <<"doc">>]
                    ELSE IF parsed.article = None
                    THEN [result |->
                              ValidationResult(parsed, [v |-> doc], FALSE,
                                               Warnings(doc, << >>, TRUE)),
                          queries |-> r.queries \o <<"doc">>]
                    ELSE [result |->
                              ValidationResult(parsed, [v |-> doc], prov # {},
                                               Warnings(doc, articleRef,
                                                        prov # {})),
                          queries |-> r.queries \o <<"doc", "prov">>]
        IN  IF ~parsed.valid
            THEN { [result |->
                        ValidationResult(
                            parsed, None, FALSE,
                            << IF parsed.error # None THEN parsed.error.v
                               ELSE <<"Invalid citation format">> >>),
                    queries |-> << >>] }
            ELSE { IF r.id = None
                   THEN [result |-> NotFound(parsed, searchTerm),
                         queries |-> r.queries]
                   ELSE Found(r) : r \in resolved }
    IN  Validated(parseCitation(citation))

ValidateCitation ==
    /\ call.fn = "validateCitation"
    /\ ~call.returned
    /\ \E outcome \in validateCitation(call.db, call.input) :
           call' = [call EXCEPT !.result = outcome.result,
                                !.queries = outcome.queries,
                                !.returned = TRUE]
    /\ UNCHANGED << env, lastRequestTime, sessionCookies, callers, crawl,
                    run, census, seeds, censusDisk, wire, audit >>

ResolveStatuteId ==
    /\ call.fn = "resolveExistingStatuteId"
    /\ ~call.returned
    /\ \E outcome \in resolveExistingStatuteId(call.db, call.input) :
           call' = [call EXCEPT !.result = outcome.id,
                                !.queries = outcome.queries,
                                !.returned = TRUE]
    /\ UNCHANGED << env, lastRequestTime, sessionCookies, callers, crawl,
                    run, census, seeds, censusDisk, wire, audit >>

\* The calls: a database that holds up to MaxActs of six Acts (one found
\* by its identifier, one whose short name is the short form of that
\* identifier, one whose short name is the title of a code, codes whose
\* titles hold one another, one whose title is an identifier) and up to
\* MaxProvisions of three provisions, and a citation to validate or an
\* identifier to resolve.
SpecValidate ==
    /\ LET Act(id, title, short_name, status) ==
               [id |-> id, title |-> title, short_name |-> short_name,
                status |-> status]
           Privacy == <<"dlgs", "-", "196", "-", "2003">>
           Acts ==
               { Act(Privacy, <<"Codice", " ", "Privacy">>, None,
                     "in_force"),
                 Act(<<"legge", "-", "5", "-", "2003">>,
                     <<"Codice", " ", "Civile">>,
                     [v |-> <<"D.Lgs.", " ", "196", "/", "2003">>],
                     "repealed"),
                 Act(<<"rd", "-", "30", "-", "1942">>,
                     <<"Regio", " ", "decreto", " ", "n.", " ", "30", "/",
                       "1942">>,
                     [v |-> <<"Codice", " ", "Penale">>], "repealed"),
                 Act(<<"cpm">>, <<"Codice", " ", "Penale", " ", "Militare">>,
                     None, "in_force"),
                 Act(<<"cp">>, <<"CODICE", " ", "PENALE">>, None,
                     "repealed"),
                 Act(<<"x">>, Privacy, None, "repealed") }
           Provisions ==
               { [document_id |-> Privacy, provision_ref |-> <<"art", "1">>,
                  section |-> <<"1">>],
                 [document_id |-> <<"rd", "-", "30", "-", "1942">>,
                  provision_ref |-> <<"615", "-", "ter">>,
                  section |-> <<"x">>],
                 [document_id |-> <<"cp">>, provision_ref |-> <<"x">>,
                  section |-> <<"art", "615", "-", "ter">>] }
           Citations ==
               { <<"Art.", " ", "1", ",", " ", "D.Lgs.", " ", "196", "/",
                   "2003">>,
                 <<"dlgs", "-", "196", "-", "2003", ",", " ", "art.", " ",
                   "1", ",", " ", "comma", " ", "1">>,
                 <<"Art.", " ", "615", "-", "ter", ",", " ", "Codice", " ",
                   "Penale">>,
                 <<"Art.", " ", "615", "-", "ter", ",", " ", "R.D.", " ",
                   "30", "/", "1942">>,
                 <<"Art.", " ", "1", ",", " ", "Legge", " ", "5", "/",
                   "2003">>,
                 <<"Art.", " ", "1", ",", " ", "Codice", " ", "Civile">>,
                 <<"Art.", " ", "1">>, <<"x">> }
           Identifiers ==
               { Privacy, <<" ">> \o Privacy,
                 <<"D.Lgs.", " ", "196", "/", "2003">>,
                 <<"Legge", " ", "5", "/", "2003">>,
                 <<"L", " ", "196", "/", "2003">>,
                 <<"Codice", " ", "Penale">>,
                 <<"codice", " ", "penale", " ", "militare">>,
                 <<"Codice">>, <<"x">> }
       IN  \E documents \in { rows \in SUBSET Acts :
                                  Cardinality(rows) <= MaxActs },
              provisions \in { rows \in SUBSET Provisions :
                                   Cardinality(rows) <= MaxProvisions } :
               \/ \E citation \in Citations :
                      Library([fn |-> "validateCitation",
                               db |-> [legal_documents |-> documents,
                                       legal_provisions |-> provisions],
                               input |-> citation, result |-> None,
                               queries |-> << >>, returned |-> FALSE])
               \/ /\ provisions = {}
                  /\ \E inputId \in Identifiers :
                         Library([fn |-> "resolveExistingStatuteId",
                                  db |-> [legal_documents |-> documents,
                                          legal_provisions |-> provisions],
                                  input |-> inputId, result |-> None,
                                  queries |-> << >>, returned |-> FALSE])
    /\ [][ValidateCitation \/ ResolveStatuteId]_vars

\* ---------------------------------------------------------------------------
\* The two phases one after the other: the ingestion run writes seeds, then
\* buildDatabase loads the seed directory.  The first Act has a seed that
\* an earlier fetch has left, with or without duplicate references; the
\* second Act is crawled, and the parsers may make the same reference of
\* both of its articles, with bodies of different length.

\* fs.readdirSync(SEED_DIR): the seed files that exist.
RECURSIVE SeedFiles(_)
SeedFiles(k) ==
    IF k > Len(seeds) THEN << >>
    ELSE (IF seeds[k].exists
          THEN << SeedFile(env.laws[k].id, seeds[k].provisions) >>
          ELSE << >>) \o SeedFiles(k + 1)

\* buildDatabase is started once the ingestion run is over.
BuildStart ==
    /\ run.pc = "done"
    /\ call = NoCall
    /\ call' = BuildCall(SeedFiles(1))
    /\ UNCHANGED << env, lastRequestTime, sessionCookies, callers, crawl,
                    run, census, seeds, censusDisk, wire, audit >>

\* Two Acts: the first has a seed left by an earlier fetch, with one or two
\* provisions whose references may repeat; the second is crawled, and its
\* articles may parse to the same reference with bodies of different length.
SpecPipeline ==
    /\ LET Bodies == { <<"x">>, <<"x", " ", "y">> }
           PipelineWorld ==
               [   World(<< Law("dlgs-196-2003", "dlgs", 196, 2003, "ingestable"),
                            Law("legge-190-2012", "legge", 190, 2012,
                                "ingestable") >>,
                         NoArgs,
                         << {2}, {2} >>,
                         << [u \in 0..2 |-> { Ok200 }],
                            [u \in 0..2 |->
                                IF u = LandingUrl
                                THEN { Ok200, Resp(503, 0, << >>) }
                                ELSE { Ok200 }] >>,
                         {50})
               EXCEPT !.provisions =
                   { Provision(ref, << >>, content) :
                         ref \in Refs, content \in Bodies }]
           CachedProvisions ==
               { Provision(ref, << >>, content) :
                   ref \in { <<"a", "r", "t", "1">>,
                             <<"a", "r", "t", "1", " ">> },
                   content \in Bodies }
       IN  \E cached \in SeqsUpTo(CachedProvisions, MaxProvisions) \ {<< >>} :
           \E cf \in CensusFor(<< SeedOf(cached), NoSeed >>) :
               /\ Fresh(PipelineWorld, << SeedOf(cached), NoSeed >>, cf)
               /\ call = NoCall
    /\ [][Next \/ BuildStart \/ BuildSeed \/ BuildFinish]_vars

\* ---------------------------------------------------------------------------
\* The article parsers (scripts/lib/parser.ts).  A page is a sequence of
\* lexemes: a tag, an entity, a bracket marker "((" or "))", a word with the
\* full stop that belongs to it ("Art."), a run of digits, a passage of text
\* without markup, or one character.  Width gives the characters of a
\* lexeme.  A single parenthesis never stands next to a bracket marker.

\* The tags of the markup (parser.ts:7-19, 197-203).
Tags ==
    { "<div class=\"bodyTesto\">", "<div class=\"d-flex\">",
      "<h2 class=\"article-num-akn\">", "</h2>",
      "<div class=\"article-heading-akn\">", "</div>",
      "<span class=\"art-just-text-akn\">", "</span>",
      "<div class=\"art-commi-div-akn\">",
      "<div class=\"art-comma-div-akn\">",
      "<span class=\"comma-num-akn\">",
      "<span class=\"art_text_in_comma\">",
      "<span class=\"attachment-just-text\">",
      "<div style=\"text-align:center;\">", "<br>", "<p>", "</p>" }

\* The entities that occur in the pages; a lexeme that is none is left.
decodeEntities(text) ==
    [k \in 1..Len(text) |->
        CASE text[k] = "&nbsp;" -> " "
          [] text[k] = "&amp;" -> "&"
          [] OTHER -> text[k]]

\* <br>, </p> and </div> become a newline, every other tag a space; then
\* .replace(/\s+/g, ' ').trim()
stripHtml(html) ==
    normalizeWhitespace(
        [k \in 1..Len(html) |->
            IF html[k] \in {"<br>", "</p>", "</div>"} THEN "\n"
            ELSE IF html[k] \in Tags THEN " "
            ELSE html[k]])

\* The first lexeme from the i-th on that is not whitespace, Len(text) + 1
\* when there is none.
RECURSIVE SkipSpaces(_, _)
SkipSpaces(text, i) ==
    IF i <= Len(text) /\ IsSpace(text[i]) THEN SkipSpaces(text, i + 1) ELSE i

\* .replace(/\(\(\s*/g, '').replace(/\s*\)\)/g, '').trim(); a marker goes
\* with the whitespace that follows it, and the closing marker with the
\* whitespace before it, which is the same on the text read backwards.
cleanAmendmentMarkers(text) ==
    LET Reverse(t) == [k \in 1..Len(t) |-> t[Len(t) - k + 1]]
        RECURSIVE StripMarker(_, _)
        StripMarker(t, marker) ==
            IF Len(t) = 0 THEN t
            ELSE IF Head(t) = marker
            THEN StripMarker(SubSeq(t, SkipSpaces(t, 2), Len(t)), marker)
            ELSE <<Head(t)>> \o StripMarker(Tail(t), marker)
    IN  trim(Reverse(StripMarker(Reverse(StripMarker(text, "((")), "))")))

\* body.match(/<tag[^>]*class="..."[^>]*>([\s\S]*?)<\/tag>/i) from the
\* lexeme `from` on: the first opening tag, up to the first closing tag that
\* follows it.
Element(html, open, close, from) ==
    LET start == IndexOfFrom(html, open, from)
        end == IF start = 0 THEN 0 ELSE IndexOfFrom(html, close, start + 1)
    IN  [found |-> end # 0, start |-> start, end |-> end,
         inner |-> IF end = 0 THEN << >> ELSE SubSeq(html, start + 1, end - 1)]

\* The ordinal suffixes of the article parsers, and those of the parser of
\* a whole document.
Ordinals ==
    [article |-> {"bis", "ter", "quater", "quinquies", "sexies", "septies",
                  "octies", "novies", "decies", "undecies", "duodecies",
                  "terdecies", "quaterdecies", "quindecies"},
     document |-> {"bis", "ter", "quater", "quinquies", "sexies", "septies",
                   "octies", "novies", "decies"}]

\* /Art\.\s*(\d+(?:-(?:bis|ter|...))?)/i at the lexeme k of text, followed
\* by \s*\. when `dot`: the number captured and the lexeme after the match.
ArtAt(text, k, suffixes, dot) ==
    LET n == SkipSpaces(text, k + 1)
        suffixed == /\ n + 2 <= Len(text)
                    /\ text[n + 1] = "-"
                    /\ Lexeme(text[n + 2]).lower \in suffixes
        e == IF suffixed THEN n + 3 ELSE n + 1
        d == SkipSpaces(text, e)
    IN  IF /\ k <= Len(text)
           /\ Lexeme(text[k]).lower = "art."
           /\ n <= Len(text)
           /\ text[n] \in Numerals
           /\ dot => (d <= Len(text) /\ text[d] = ".")
        THEN [found |-> TRUE, index |-> k, num |-> SubSeq(text, n, e - 1),
              end |-> IF dot THEN d + 1 ELSE e]
        ELSE [found |-> FALSE, index |-> 0, num |-> << >>, end |-> 0]

\* text.match of the same expression: the leftmost match from `from` on.
RECURSIVE MatchArt(_, _, _, _)
MatchArt(text, from, suffixes, dot) ==
    IF from > Len(text) THEN ArtAt(text, from, suffixes, dot)
    ELSE IF ArtAt(text, from, suffixes, dot).found
    THEN ArtAt(text, from, suffixes, dot)
    ELSE MatchArt(text, from + 1, suffixes, dot)

parseArticleHtml(html) ==
    LET \* heading.replace(/^\s*\(\s*/, '')
        \*        .replace(/\s*\)\s*\.?\s*$/, '').trim()
        Unwrap(wrapped) ==
            LET a == SkipSpaces(wrapped, 1)
                opened == IF a <= Len(wrapped) /\ wrapped[a] = "("
                          THEN SubSeq(wrapped, SkipSpaces(wrapped, a + 1),
                                      Len(wrapped))
                          ELSE wrapped
                back == [k \in 1..Len(opened) |-> opened[Len(opened) - k + 1]]
                b == SkipSpaces(back, 1)
                c == IF b <= Len(back) /\ back[b] = "."
                     THEN SkipSpaces(back, b + 1) ELSE b
            IN  IF c <= Len(back) /\ back[c] = ")"
                THEN trim(SubSeq(opened, 1,
                                 Len(opened) - (SkipSpaces(back, c + 1) - 1)))
                ELSE trim(opened)
        \* The loop over commaPattern from the lexeme `from` of the
        \* container on: the texts of the blocks that are kept.
        RECURSIVE Paragraphs(_, _, _)
        Paragraphs(container, from, paragraphs) ==
            LET comma == Element(container,
                                 "<div class=\"art-comma-div-akn\">",
                                 "</div>", from)
                text == cleanAmendmentMarkers(
                            stripHtml(decodeEntities(comma.inner)))
            IN  IF ~comma.found THEN paragraphs
                ELSE Paragraphs(container, comma.end + 1,
                                IF /\ Len(text) > 0
                                   /\ text \notin {<<"((">>, <<"))">>}
                                   /\ TextLength(text) > 1
                                THEN Append(paragraphs, text)
                                ELSE paragraphs)
        bodyStart == IndexOfFrom(html, "<div class=\"bodyTesto\">", 1)
        bodyEnd == IF bodyStart = 0 THEN 0
                   ELSE IndexOfFrom(html, "<div class=\"d-flex\">", bodyStart)
        body == IF bodyEnd > bodyStart
                THEN SubSeq(html, bodyStart, bodyEnd - 1)
                ELSE SubSeq(html, bodyStart, Len(html))
        numMatch == Element(body, "<h2 class=\"article-num-akn\">", "</h2>", 1)
        artNumMatch ==
            MatchArt(trim(stripHtml(numMatch.inner)), 1, Ordinals.article,
                     FALSE)
        articleNum == artNumMatch.num
        headingMatch ==
            Element(body, "<div class=\"article-heading-akn\">", "</div>", 1)
        heading ==
            IF headingMatch.found
            THEN Unwrap(cleanAmendmentMarkers(
                            stripHtml(decodeEntities(headingMatch.inner))))
            ELSE << >>
        justTextMatch ==
            Element(body, "<span class=\"art-just-text-akn\">", "</span>", 1)
        \* Structure 1
        content1 ==
            IF justTextMatch.found
            THEN cleanAmendmentMarkers(
                     stripHtml(decodeEntities(justTextMatch.inner)))
            ELSE << >>
        commi == IndexOfFrom(body, "<div class=\"art-commi-div-akn\">", 1)
        \* Structure 2
        content2 ==
            IF Len(content1) = 0 /\ commi # 0
            THEN Join(Paragraphs(SubSeq(body, commi + 1, Len(body)), 1,
                                 << >>),
                      <<" ">>)
            ELSE content1
        \* Structure 3
        content3 ==
            IF Len(content2) = 0
            THEN cleanAmendmentMarkers(stripHtml(decodeEntities(
                     SubSeq(body, numMatch.end + 1, Len(body)))))
            ELSE content2
        content == normalizeWhitespace(content3)
    IN  IF bodyStart = 0 \/ ~numMatch.found \/ ~artNumMatch.found THEN None
        ELSE IF Len(content) = 0 \/ TextLength(content) < 5 THEN None
        ELSE [provision_ref |-> <<"art">> \o articleNum,
              section |-> articleNum, title |-> heading, content |-> content]

parseAttachmentArticleHtml(html) ==
    LET \* raw.match(/\(([^)]{3,})\)/): the text between the first
        \* parenthesis that is followed by three characters or more and the
        \* parenthesis that closes it; the bracket markers are two
        \* parentheses each.
        RECURSIVE Parenthetical(_, _)
        Parenthetical(span, from) ==
            LET flat == IF from = 1
                        THEN Join([k \in 1..Len(span) |->
                                      IF span[k] = "((" THEN <<"(", "(">>
                                      ELSE IF span[k] = "))" THEN <<")", ")">>
                                      ELSE <<span[k]>>], << >>)
                        ELSE span
                open == IndexOfFrom(flat, "(", from)
                close == IF open = 0 THEN 0
                         ELSE IndexOfFrom(flat, ")", open + 1)
            IN  IF close = 0 THEN [found |-> FALSE, inner |-> << >>]
                ELSE IF TextLength(SubSeq(flat, open + 1, close - 1)) >= 3
                THEN [found |-> TRUE,
                      inner |-> SubSeq(flat, open + 1, close - 1)]
                ELSE Parenthetical(flat, open + 1)
        attachMatch ==
            Element(html, "<span class=\"attachment-just-text\">", "</span>",
                    1)
        raw == attachMatch.inner
        artMatch == MatchArt(raw, 1, Ordinals.article, TRUE)
        articleNum == artMatch.num
        headingMatch == Parenthetical(raw, 1)
        heading == IF headingMatch.found
                   THEN trim(decodeEntities(headingMatch.inner)) ELSE << >>
        centerEnd == IndexOfFrom(raw, "</div>", 1)
        \* raw.indexOf('</div>') > 0: a </div> that is not the first lexeme
        after == IF centerEnd > 1 THEN SubSeq(raw, centerEnd + 1, Len(raw))
                 ELSE SubSeq(raw, artMatch.end, Len(raw))
        content ==
            normalizeWhitespace(
                cleanAmendmentMarkers(stripHtml(decodeEntities(after))))
    IN  IF ~attachMatch.found \/ ~artMatch.found THEN None
        ELSE IF Len(content) = 0 \/ TextLength(content) < 5 THEN None
        ELSE [provision_ref |-> <<"art">> \o articleNum,
              section |-> articleNum, title |-> heading, content |-> content]

\* What articlePattern and the expression of the line-based approach match
\* after the article number, which ends before the lexeme e:
\* \s*(?:\.\s*)?\n?\s*(?:\(([^)]*)\))?  -- the title and the lexeme after it.
Header(text, e) ==
    LET a == SkipSpaces(text, e)
        b == IF a <= Len(text) /\ text[a] = "."
             THEN SkipSpaces(text, a + 1) ELSE a
        close == IF b <= Len(text) /\ text[b] = "("
                 THEN IndexOfFrom(text, ")", b + 1) ELSE 0
    IN  IF close = 0 THEN [title |-> << >>, end |-> b]
        ELSE [title |-> trim(SubSeq(text, b + 1, close - 1)),
              end |-> close + 1]

\* The while loop of parseNormattivaHtml over articlePattern, from the
\* lexeme `from` of textContent on.  The body of an article ends before the
\* first "Art. N" that is followed by a full stop or by the end of the
\* text, or at the end of the text.
RECURSIVE ScanArticles(_, _, _)
ScanArticles(text, from, provisions) ==
    LET match == MatchArt(text, from, Ordinals.document, FALSE)
        header == Header(text, match.end)
        start == SkipSpaces(text, header.end)
        Boundary(p) ==
            \/ p > Len(text)
            \/ LET next == ArtAt(text, p, Ordinals.document, FALSE)
                   e == SkipSpaces(text, next.end)
               IN  next.found /\ (e > Len(text) \/ text[e] = ".")
        stop == CHOOSE p \in start..(Len(text) + 1) :
                    /\ Boundary(p)
                    /\ \A q \in start..(p - 1) : ~Boundary(q)
        content == normalizeWhitespace(SubSeq(text, start, stop - 1))
    IN  IF ~match.found THEN provisions
        ELSE ScanArticles(
                 text, stop,
                 \* if (content.length === 0) continue
                 IF Len(content) = 0 THEN provisions
                 ELSE Append(provisions,
                             [provision_ref |-> <<"art">> \o trim(match.num),
                              section |-> trim(match.num),
                              title |-> header.title, content |-> content]))

\* The line-based approach, from the k-th line on; `current` is
\* currentArticle, currentTitle and currentContent.
RECURSIVE ScanLines(_, _, _, _)
ScanLines(lines, k, current, provisions) ==
    LET flushed ==
            IF current.article # None /\ Len(current.content) > 0
            THEN Append(provisions,
                        [provision_ref |-> <<"art">> \o current.article.v,
                         section |-> current.article.v,
                         title |-> current.title,
                         content |-> normalizeWhitespace(
                                         Join(current.content, <<" ">>))])
            ELSE provisions
        Turn(line, artMatch) ==
            LET header == Header(line, artMatch.end)
                remainder == trim(SubSeq(line, header.end, Len(line)))
            IN  IF artMatch.found
                THEN ScanLines(lines, k + 1,
                               [article |-> [v |-> trim(artMatch.num)],
                                title |-> header.title,
                                content |-> IF Len(remainder) > 0
                                            THEN <<remainder>> ELSE << >>],
                               flushed)
                ELSE IF current.article # None
                THEN ScanLines(lines, k + 1,
                               [current EXCEPT !.content = Append(@, line)],
                               provisions)
                ELSE ScanLines(lines, k + 1, current, provisions)
    IN  IF k > Len(lines) THEN flushed
        ELSE Turn(lines[k], ArtAt(lines[k], 1, Ordinals.document, FALSE))

\* parseNormattivaHtml(html, ...).provisions; the pages hold no script and
\* no style element.  Tags and entities are replaced and nothing else is
\* cleaned.
parseNormattivaHtml(html) ==
    LET textContent ==
            Join([k \in 1..Len(html) |->
                     IF html[k] \in {"<br>", "</p>", "</div>"} THEN <<"\n">>
                     ELSE IF html[k] \in Tags THEN <<" ">>
                     ELSE IF html[k] = "((" THEN <<"(", "(">>
                     ELSE IF html[k] = "))" THEN <<")", ")">>
                     ELSE decodeEntities(<<html[k]>>)], << >>)
        \* text.split(sep)
        RECURSIVE Split(_, _)
        Split(text, sep) ==
            LET k == IndexOfFrom(text, sep, 1)
            IN  IF k = 0 THEN <<text>>
                ELSE <<SubSeq(text, 1, k - 1)>>
                         \o Split(SubSeq(text, k + 1, Len(text)), sep)
        lines == SelectSeq([k \in 1..Len(Split(textContent, "\n")) |->
                               trim(Split(textContent, "\n")[k])],
                           LAMBDA l : Len(l) > 0)
        Fallback(provisions) ==
            IF Len(provisions) = 0
            THEN ScanLines(lines, 1,
                           [article |-> None, title |-> << >>,
                            content |-> << >>], << >>)
            ELSE provisions
    IN  Fallback(ScanArticles(textContent, 1, << >>))

\* parseArticleHtml(article.html) ?? parseAttachmentArticleHtml(article.html):
\* the strategies that are evaluated, in order, and the value.
ParseAttachmentFirst(html) ==
    LET Or(first) ==
            IF first # None
            THEN [tried |-> <<"attachment">>, parsed |-> first]
            ELSE [tried |-> <<"attachment", "structured">>,
                  parsed |-> parseArticleHtml(html)]
    IN  Or(parseAttachmentArticleHtml(html))

Parse(html) ==
    LET Or(first) ==
            IF first # None
            THEN [tried |-> <<"structured">>, parsed |-> first]
            ELSE [tried |-> <<"structured", "attachment">>,
                  parsed |-> parseAttachmentArticleHtml(html)]
    IN  Or(parseArticleHtml(html))

\* One turn of `for (const article of articles)` of ingestAct; the history
\* keeps what Parse did of each article.
ParseArticle ==
    /\ call.fn = "ingestAct"
    /\ ~call.returned
    /\ call.article <= Len(call.articles)
    /\ LET Turn(p) ==
               call' = [call EXCEPT
                   !.article = @ + 1,
                   !.trace = Append(@, p),
                   !.provisions =
                       IF /\ p.parsed # None
                          /\ ~SeenRef(@, p.parsed.provision_ref)
                       THEN Append(@, p.parsed) ELSE @]
       IN  Turn(Parse(call.articles[call.article]))
    /\ UNCHANGED << env, lastRequestTime, sessionCookies, callers, crawl,
                    run, census, seeds, censusDisk, wire, audit >>

\* fs.writeFileSync(seedFile, JSON.stringify(seed, null, 2)) after the loop.
WriteSeed ==
    /\ call.fn = "ingestAct"
    /\ ~call.returned
    /\ call.article > Len(call.articles)
    /\ call' = [call EXCEPT !.seed = [v |-> call.provisions],
                            !.returned = TRUE]
    /\ UNCHANGED << env, lastRequestTime, sessionCookies, callers, crawl,
                    run, census, seeds, censusDisk, wire, audit >>

\* The simplified path (scripts/ingest.ts): the page of the whole Act is
\* parsed and what the parser returns is written as the seed.
ParseDocument ==
    /\ call.fn = "parseNormattivaHtml"
    /\ ~call.returned
    /\ call' = [call EXCEPT !.seed = [v |-> parseNormattivaHtml(call.html)],
                            !.returned = TRUE]
    /\ UNCHANGED << env, lastRequestTime, sessionCookies, callers, crawl,
                    run, census, seeds, censusDisk, wire, audit >>

\* The pages.  An article page has a structured part, or none, and after it
\* an attachment, or none: the structured part has a label, a heading or
\* none, and as its body a single paragraph, numbered blocks, blocks without
\* number, or nothing.  An Act has one such article, which may be followed
\* by an article of the same number or by a page without article.  The page of a whole Act, for the
\* simplified path, has two articles, or is one of a few texts without
\* markup.
SpecParse ==
    /\ LET Long == <<"Il trattamento...">>
           Other == <<"((", "Il titolare...", "))">>
           Short == <<"a", "b", "c">>
           Marker == <<"((", " ", "))">>
           JustText(t) ==
               <<"<span class=\"art-just-text-akn\">">> \o t \o <<"</span>">>
           Block(label, t) ==
               <<"<div class=\"art-comma-div-akn\">">> \o label
                   \o <<"<span class=\"art_text_in_comma\">">> \o t
                   \o <<"</span>", "</div>">>
           Num(n) == <<"<span class=\"comma-num-akn\">", n, ".", " ",
                       "</span>">>
           Commi(first, second) ==
               <<"<div class=\"art-commi-div-akn\">">> \o first \o second
                   \o <<"</div>">>
           Bodies ==
               { << >>, JustText(Long), JustText(Short), JustText(Marker),
                 Commi(Block(Num("1"), Long), Block(Num("5"), Other)),
                 Commi(Block(Num("1"), Marker), Block(Num("5"), Long)),
                 Commi(Block(<< >>, Marker), Block(<< >>, Other)),
                 Commi(Block(<< >>, Long), Block(<< >>, <<"a">>)) }
           Labels == { <<"Art.", " ", "1">>,
                       <<"Art.", " ", "615", "-", "Ter">>,
                       <<"Art.", "&nbsp;", "615", "-", "ter">>, <<"x">> }
           Headings ==
               { << >>,
                 <<"<div class=\"article-heading-akn\">", "((", " ", "(",
                   "Oggetto", ")", ".", " ", "))", "</div>">> }
           Structured ==
               { <<"<div class=\"bodyTesto\">",
                   "<h2 class=\"article-num-akn\">">> \o label \o <<"</h2>">>
                     \o heading \o body \o <<"<div class=\"d-flex\">">> :
                   label \in Labels, heading \in Headings, body \in Bodies }
           Attachment(t) ==
               <<"<span class=\"attachment-just-text\">",
                 "<div style=\"text-align:center;\">", " ", "Art.", " ", "5",
                 ".", " ", "<br>", "<br>", " ", "(", "Oggetto", ")", " ",
                 "</div>", "<br>", " ">> \o t \o <<"<br>", "</span>">>
           Attachments ==
               { << >>, Attachment(Long), Attachment(Short),
                 <<"<span class=\"attachment-just-text\">", "Art.", " ",
                   "615", "-", "TER", ".", "<br>", " ", "((">> \o Long
                     \o <<"))", "</span>">> }
           Articles ==
               { s \o a : s \in Structured \cup {<<"x">>},
                          a \in Attachments }
           Again ==
               { <<"<div class=\"bodyTesto\">",
                   "<h2 class=\"article-num-akn\">", "Art.", " ", "1",
                   "</h2>">> \o JustText(Other),
                 <<"<div class=\"bodyTesto\">", "x">> }
           Section(num, t) ==
               <<"<p>", "Art.", " ">> \o num \o <<".", " ">> \o t
                   \o <<"</p>">>
           Documents ==
               { Section(<<"1">>, first) \o Section(num, second) :
                   first \in {Long, Short, << >>},
                   num \in {<<"5">>, <<"615", "-", "Ter">>},
                   second \in {Long, Other, Short, << >>,
                               <<"(", "Oggetto", ")", " ">> \o Long} }
                 \cup { <<"x">>,
                        <<"Art.", " ", "1", " ", "Art.", " ", "5", ".">>,
                        <<"Art.", " ", "1", "<br>">> \o Long
                            \o <<"<br>", "Art.", " ", "5">> \o Short }
       IN  \/ \E first \in Articles :
              \E rest \in {<< >>} \cup {<<again>> : again \in Again} :
                  Library([fn |-> "ingestAct", articles |-> <<first>> \o rest,
                           article |-> 1, trace |-> << >>,
                           provisions |-> << >>, seed |-> None,
                           returned |-> FALSE])
           \/ \E html \in Documents :
                  Library([fn |-> "parseNormattivaHtml", html |-> html,
                           seed |-> None, returned |-> FALSE])
    /\ [][ParseArticle \/ WriteSeed \/ ParseDocument]_vars

\* ===========================================================================
\* Properties
\* ===========================================================================

\* C1: any two requests of the session client are dispatched at least
\* MIN_DELAY_MS apart, also when several callers of one batch wait on the
\* rate-limit gate at the same time.  (Refuted by the code: the callers of
\* a batch read lastRequestTime before any of them has set it, sleep for the
\* same time and are dispatched at the same instant.)
C1_MinDelayBetweenRequests == wire.dispatchGap >= MIN_DELAY_MS

\* C2: for one URL at most maxRetries + 1 requests are sent; another request
\* is sent only after a response with status 429 or >= 500, and a response
\* with any other status is returned to the caller as it is, with no further
\* request.
C2_RetryBound ==
    \A s \in Slots :
        LET c == callers[s]
        IN  /\ c.nreq <= maxRetries + 1
            /\ (c.pc = "backoff" \/ (c.pc = "inflight" /\ c.nreq > 1))
                   => Retryable(c.lastStatus)
            /\ (c.lastStatus # 0 /\ ~Retryable(c.lastStatus))
                   => /\ c.pc = "done"
                      /\ c.res.kind = "returned"
                      /\ c.res.status = c.lastStatus

\* A call that sent maxRetries + 1 requests and one that returned a 404 after
\* its only request.
C2_Witness ==
    \E s \in Slots :
        /\ callers[s].pc = "done"
        /\ callers[s].nreq = maxRetries + 1
        /\ callers[s].res.kind = "returned"
        /\ callers[s].res.status = 200

\* C3: when every attempt for a URL is answered 429 or 5xx, the fetch ends
\* with an error raised to its caller, not with a normal result.  (Refuted by
\* the code: the last attempt's response is returned like any other.)
C3_ExhaustedRetriesThrow ==
    \A s \in Slots :
        (/\ callers[s].pc = "done"
         /\ callers[s].nreq = maxRetries + 1
         /\ Retryable(callers[s].lastStatus))
            => callers[s].res.kind = "threw"

\* C4: a request that fails without any HTTP response is retried, up to the
\* retry bound, before the failure is reported to the caller.  (Refuted by
\* the code: the first rejection of fetch() ends the call.)
C4_NetworkFailureRetried ==
    \A s \in Slots :
        callers[s].res.kind = "threw" => callers[s].nreq = maxRetries + 1

\* C5: fetchAllArticles never aborts because of one article URL: whenever the
\* landing page listed articles the crawl returns, the articles returned are
\* exactly those whose fetch gave a usable page, and their number plus the
\* number of failures is the number of article URLs.
C5_BatchNeverAborts ==
    LET lc == audit.lastCrawl
    IN  lc.articleUrls > 0 =>
            /\ ~lc.threw
            /\ Range(lc.results) = lc.usable
            /\ Len(lc.results) = Cardinality(lc.usable)
            /\ Len(lc.results) + lc.failed = lc.articleUrls

\* A crawl that lost an article of its first batch and still returned the
\* article of its second batch.
C5_Witness ==
    LET lc == audit.lastCrawl
    IN  /\ lc.articleUrls > ARTICLE_CONCURRENCY
        /\ lc.failed > 0
        /\ 1 \notin lc.usable
        /\ lc.articleUrls \in Range(lc.results)

\* The text name=value of a cookie pair of the history.
PairText(p) == p[1] \o <<"=">> \o p[2]

\* The components of a Cookie header, which are separated by "; ".
RECURSIVE CookieParts(_)
CookieParts(h) ==
    IF Len(h) = 0 THEN {}
    ELSE LET k == IndexOfFrom(h, ";", 1)
         IN  IF k = 0 THEN {h}
             ELSE {SubSeq(h, 1, k - 1)}
                      \cup CookieParts(SubSeq(h, k + 2, Len(h)))

\* C6: the cookie store holds one cookie per cookie name set in the session,
\* with the value of the most recent response that set the name, and every
\* request carries all cookies that were in the store when it was issued.
C6_CookieStore ==
    /\ Len(sessionCookies) = Cardinality(wire.jar)
    /\ Range(sessionCookies) = {PairText(p) : p \in wire.jar}
    /\ CookieParts(wire.sent.cookie) = {PairText(p) : p \in wire.sent.jar}

\* A request that carried two cookies, one of which had replaced an earlier
\* cookie of its name and of another value.
C6_Witness ==
    /\ wire.overwrote
    /\ Cardinality(wire.sent.jar) = 2
    /\ wire.sent.jar = wire.jar

\* C7: the cookie store is empty when the crawl of an Act begins, and no
\* request of a crawl carries a cookie set during an earlier crawl.
C7_NoCrossActCookies ==
    /\ (crawl.phase = "landing" /\ callers[1].nreq = 0)
           => sessionCookies = << >>
    /\ \A k \in 1..(wire.sent.crawlNo - 1) :
           CrawlChar(k) \notin Range(wire.sent.cookie)

\* A request of the second crawl that carried a cookie, after the first
\* crawl had cookies set.
C7_Witness ==
    /\ 1 \in wire.cookiesSetIn
    /\ wire.sent.crawlNo = 2
    /\ Len(wire.sent.cookie) > 0

\* C8: the census is written at least once per CheckpointEvery processed
\* Acts: at no point of a run have more than CheckpointEvery Acts been
\* processed since the last census write.  (Refuted by the code: a skipped
\* Act is counted as processed but leaves the loop body before the periodic
\* save, so the save is missed when the count passes a multiple of
\* CheckpointEvery on a skipped Act.)
C8_CheckpointEvery == audit.sinceWrite <= CheckpointEvery

\* C9: an Act that has a seed with a non-empty provision list is skipped when
\* force is not requested: no request is sent for it, its seed is left as it
\* is and its cached provision count is added to the run total.
C9_SkipCached ==
    /\ [](audit.skippedActs \cap wire.requested = {})
    /\ [][ (/\ run.pc = "loop"
            /\ run.idx <= Len(run.toProcess)
            /\ ~env.args.force
            /\ seeds[run.toProcess[run.idx]].exists
            /\ Len(seeds[run.toProcess[run.idx]].provisions) > 0)
           => LET law == run.toProcess[run.idx]
              IN  /\ seeds' = seeds
                  /\ wire' = wire
                  /\ callers' = callers
                  /\ crawl' = crawl
                  /\ run'.totalProvisions =
                         run.totalProvisions + Len(seeds[law].provisions)
                  /\ run'.skipped = run.skipped + 1
                  /\ law \in audit'.skippedActs ]_vars

\* A finished run that skipped a cached Act, counting its provisions, and
\* fetched another Act.
C9_Witness ==
    /\ run.pc = "done"
    /\ audit.skippedActs # {}
    /\ wire.requested # {}
    /\ run.totalProvisions > 0
    /\ run.skipped > 0

\* C10: a failure while processing one Act never stops the run: the run ends
\* with the final census write, every Act of the pending set having been
\* skipped or having had a seed written.
C10_RunCompletes ==
    <>(/\ run.pc = "done"
       /\ censusDisk = census
       /\ Range(run.toProcess) \subseteq (audit.skippedActs \cup audit.written))

\* A finished run in which an Act failed (an empty seed was written for it)
\* and an Act after it was ingested.
C10_Witness ==
    /\ run.pc = "done"
    /\ \E i, j \in 1..Len(run.toProcess) :
          /\ i < j
          /\ run.toProcess[i] \in audit.written
          /\ seeds[run.toProcess[i]].provisions = << >>
          /\ run.toProcess[j] \in audit.written
          /\ Len(seeds[run.toProcess[j]].provisions) > 0

\* C11: whenever the processing of an Act yields no provision, because the
\* crawl failed or because no fetched article could be parsed, the seed
\* written is empty and the Act is counted as failed, not as ingested.
\* (Refuted by the code: when articles were fetched and none could be
\* parsed, ingestAct returns failed = false and main counts the Act as
\* ingested.)
C11_NoProvisionIsFailed ==
    /\ run.failed = Cardinality(audit.failedActs)
    /\ \A law \in audit.written :
          Len(seeds[law].provisions) = 0
              => law \in audit.failedActs /\ law \notin audit.ingestedActs

\* An Act passes the filters that were given.
PassesFilters(k) ==
    /\ env.laws[k].classification \in {"ingestable", "pre_republic"}
    /\ env.args.id # "" => env.laws[k].id = env.args.id
    /\ env.args.type # "" => env.laws[k].type = env.args.type
    /\ env.args.fromYear # 0 => env.laws[k].year >= env.args.fromYear

\* The Acts that pass the filters and come before Act k in processing order:
\* newer first, then the smaller number, then the census order.
AheadOf(k) ==
    {j \in 1..Len(env.laws) :
        /\ PassesFilters(j)
        /\ \/ env.laws[j].year > env.laws[k].year
           \/ /\ env.laws[j].year = env.laws[k].year
              /\ env.laws[j].number < env.laws[k].number
           \/ /\ env.laws[j].year = env.laws[k].year
              /\ env.laws[j].number = env.laws[k].number
              /\ j < k}

Eligible(k) ==
    /\ PassesFilters(k)
    /\ env.args.limit # 0 => Cardinality(AheadOf(k)) < env.args.limit

\* C12: only Acts classified ingestable or pre_republic that pass every
\* filter given and fall within the limit after sorting are fetched or have
\* a seed written; the census entry of any other Act is never modified, in
\* memory or on disk.
C12_OnlyPendingActsTouched ==
    /\ [](\A k \in wire.requested \cup audit.written : Eligible(k))
    /\ [][\A k \in 1..Len(env.laws) :
             ~Eligible(k) => /\ census'.laws[k] = census.laws[k]
                             /\ censusDisk'.laws[k] = censusDisk.laws[k]
                             /\ seeds'[k] = seeds[k]]_vars

\* A finished run that fetched an Act and wrote its census entry while
\* another Act was rejected by a filter, another fell outside the limit
\* and another is classified excluded.
C12_Witness ==
    /\ run.pc = "done"
    /\ env.args.limit # 0
    /\ \E k \in wire.requested \cap audit.written : census.laws[k].ingested
    /\ \E k \in 1..Len(env.laws) : PassesFilters(k) /\ ~Eligible(k)
    /\ \E k \in 1..Len(env.laws) :
          /\ env.laws[k].classification # "excluded"
          /\ ~PassesFilters(k)
    /\ \E k \in 1..Len(env.laws) : env.laws[k].classification = "excluded"

\* The identity of the article a directive is about.
Identity(params) == << params.idArticolo, params.idSottoArticolo >>

\* The directives of the page that are not flagged historical and are about
\* the article of identity id.
Current(id) ==
    {i \in 1..Len(call.html) :
        ~call.html[i].imUpdate /\ Identity(call.html[i]) = id}

\* C13: extractArticleUrls emits exactly one URL for each article identity
\* that has a directive not flagged historical, that of the non-historical
\* directive with the highest version; a historical directive is never
\* emitted and an identity with only historical directives yields no URL.
C13_CurrentVersionPerIdentity ==
    (call.fn = "extractArticleUrls" /\ call.returned) =>
        /\ \A k \in 1..Len(call.urls) : ~call.urls[k].imUpdate
        /\ \A i \in 1..Len(call.html) :
              LET id == Identity(call.html[i])
                  emitted == {k \in 1..Len(call.urls) :
                                 Identity(call.urls[k]) = id}
              IN  IF Current(id) = {}
                  THEN emitted = {}
                  ELSE /\ Cardinality(emitted) = 1
                       /\ \A k \in emitted :
                             /\ \E j \in Current(id) :
                                   call.html[j] = call.urls[k]
                             /\ \A j \in Current(id) :
                                   ToNumber(call.html[j].versione)
                                       <= ToNumber(call.urls[k].versione)
        /\ \A k \in 1..Len(call.urls) :
              \E i \in 1..Len(call.html) : call.html[i] = call.urls[k]

\* A page that lists one article at versions 3 and 10, the newest flagged
\* historical or listed first, and an article that only has historical
\* directives: the call returned one URL.
C13_Witness ==
    /\ call.fn = "extractArticleUrls"
    /\ call.returned
    /\ Len(call.urls) = 1
    /\ \E i, j \in 1..Len(call.html) :
          /\ Identity(call.html[i]) = Identity(call.html[j])
          /\ ToNumber(call.html[i].versione)
                 > ToNumber(call.html[j].versione)
          /\ call.html[i].imUpdate
          /\ call.urls[1] = call.html[j]
    /\ \E i \in 1..Len(call.html) : Current(Identity(call.html[i])) = {}

\* C14: the URLs returned by extractArticleUrls are ordered by (idArticolo,
\* idSottoArticolo) ascending, compared as numbers, whatever the order of
\* the directives in the page.
C14_UrlsInArticleOrder ==
    (call.fn = "extractArticleUrls" /\ call.returned) =>
        \A i, j \in 1..Len(call.urls) :
            i < j =>
                LET a == call.urls[i]
                    b == call.urls[j]
                IN  \/ ToNumber(a.idArticolo) < ToNumber(b.idArticolo)
                    \/ /\ ToNumber(a.idArticolo) = ToNumber(b.idArticolo)
                       /\ ToNumber(a.idSottoArticolo)
                              <= ToNumber(b.idSottoArticolo)

\* A page that lists article 10 before article 2, and a sub-article before
\* the article it belongs to: the call returned them the other way round.
C14_Witness ==
    /\ call.fn = "extractArticleUrls"
    /\ call.returned
    /\ Len(call.html) = 3
    /\ Len(call.urls) = 3
    /\ call.urls[1] = call.html[3]
    /\ call.urls[2] = call.html[2]
    /\ call.urls[3] = call.html[1]
    /\ call.html[1].idArticolo = <<"1", "0">>
    /\ call.html[3].idArticolo = <<"2">>
    /\ call.html[3].idSottoArticolo = << >>

\* A provision carries a heading.
HasHeading(p) == p.title # Undefined /\ Len(p.title) > 0

\* C17: when duplicate provisions are merged, the heading of the result is
\* taken from whichever duplicate carries one: if the provision whose body
\* is kept has no heading (absent or empty title) and the other duplicate
\* has one, the result carries the other duplicate's heading.  (Refuted by
\* the code: `??` only passes over an absent title, an empty title is
\* kept.)
C17_HeadingFromEitherDuplicate ==
    (/\ call.fn = "dedupeProvisions"
     /\ call.returned
     /\ Len(call.provisions) = 2
     /\ Len(call.deduped) = 1)
        => ((HasHeading(call.provisions[1]) \/ HasHeading(call.provisions[2]))
               => HasHeading(call.deduped[1]))

\* The number a token of decimal digits denotes, digit by digit.
Denotes(token, n) ==
    \/ /\ Len(token) = 2
       /\ n = 10 * DigitValue(token[1]) + DigitValue(token[2])
    \/ /\ Len(token) = 4
       /\ n = 1000 * DigitValue(token[1]) + 100 * DigitValue(token[2])
                + 10 * DigitValue(token[3]) + DigitValue(token[4])

\* C20: a 2-digit year token yy is normalized to 1900 + yy when yy >= 50
\* and to 2000 + yy when yy < 50 ("16" gives 2016, "96" gives 1996, "50"
\* gives 1950, "49" gives 2049); a 4-digit token is kept unchanged.
C20_CenturyPivot ==
    (call.fn = "normalizeEuYear" /\ call.returned) =>
        /\ \A yy \in 0..99 :
              (Len(call.rawYear) = 2 /\ Denotes(call.rawYear, yy)) =>
                  call.year = IF yy >= 50 THEN 1900 + yy ELSE 2000 + yy
        /\ \A yyyy \in 0..2999 :
              (Len(call.rawYear) = 4 /\ Denotes(call.rawYear, yyyy)) =>
                  call.year = yyyy
        /\ call.rawYear = <<"1", "6">> => call.year = 2016
        /\ call.rawYear = <<"9", "6">> => call.year = 1996
        /\ call.rawYear = <<"5", "0">> => call.year = 1950
        /\ call.rawYear = <<"4", "9">> => call.year = 2049

\* The token at the pivot has been normalized to the last century.
C20_Witness ==
    /\ call.fn = "normalizeEuYear"
    /\ call.returned
    /\ call.rawYear = <<"5", "0">>
    /\ call.year = 1950

\* Every occurrence of a citation in the text of the call, as the reference
\* extractEuReferences makes of it.
Occurrences ==
    UNION { { Reference(call.text, k, Captures(p, call.text[k])) :
                k \in {j \in 1..Len(call.text) :
                          /\ Captures(p, call.text[j]).matched
                          /\ Bounded(call.text, j)} } :
            p \in Patterns }

\* C19: extractEuReferences returns no two references with the same
\* (foreign-instrument id, pinpoint article) for one text, and the
\* reference kept for such a key is the one whose occurrence comes first in
\* the text.  (Refuted by the code: the patterns are applied one after the
\* other, each over the whole text, so an occurrence that an earlier
\* pattern matches is kept although an occurrence of a later pattern comes
\* before it in the text.)
C19_FirstOccurrenceWins ==
    (call.fn = "extractEuReferences" /\ call.returned) =>
        /\ \A i, j \in 1..Len(call.refs) :
              DedupeKey(call.refs[i]) = DedupeKey(call.refs[j]) => i = j
        /\ \A i \in 1..Len(call.refs) :
              \A o \in Occurrences :
                  DedupeKey(o) = DedupeKey(call.refs[i])
                      => call.refs[i].index <= o.index

\* The stored references of one (Act, foreign instrument) pair, as their
\* places in the order in which they were recorded.
RowsOfPair(doc, eu) ==
    {k \in 1..Len(call.eu_references) :
        /\ call.eu_references[k].document_id = doc
        /\ call.eu_references[k].eu_document_id = eu}

\* C18: for each (Act, foreign instrument) pair at most one stored
\* reference is marked primary implementation, and it is the first
\* reference with relation 'implements' recorded for that pair in
\* processing order; a later reference of the pair is never marked, even if
\* it is also 'implements', and a 'references' relation is never marked.
C18_FirstImplementsIsPrimary ==
    call.fn = "buildDatabase" =>
        \A k \in 1..Len(call.eu_references) :
            LET row == call.eu_references[k]
                pair == RowsOfPair(row.document_id, row.eu_document_id)
            IN  row.is_primary_implementation
                    <=> /\ row.reference_type = "implements"
                        /\ \A j \in pair :
                              j < k => call.eu_references[j].reference_type
                                           # "implements"

\* A finished build that stored, for one pair, a 'references' relation, then
\* an 'implements' relation marked primary, then another 'implements'
\* relation that is not marked.
C18_Witness ==
    /\ call.fn = "buildDatabase"
    /\ call.returned
    /\ \E i, j, k \in 1..Len(call.eu_references) :
          /\ i < j /\ j < k
          /\ {i, j, k} \subseteq RowsOfPair(call.eu_references[i].document_id,
                                            call.eu_references[i].eu_document_id)
          /\ call.eu_references[i].reference_type = "references"
          /\ ~call.eu_references[i].is_primary_implementation
          /\ call.eu_references[j].reference_type = "implements"
          /\ call.eu_references[j].is_primary_implementation
          /\ call.eu_references[k].reference_type = "implements"
          /\ ~call.eu_references[k].is_primary_implementation

\* The reference tokens of a list of provisions are pairwise distinct.
DistinctRefs(provisions) ==
    \A i, j \in 1..Len(provisions) :
        provisions[i].provision_ref = provisions[j].provision_ref => i = j

C16_LongerBodyKept ==
    /\ \A c \in audit.conflicts :
          Len(normalizeWhitespace(c.kept.content))
              >= Len(normalizeWhitespace(c.dropped.content))
    /\ (call.fn = "buildDatabase" /\ call.file > 1) =>
          \A k \in 1..Len(call.deduped) :
              \A p \in Range(call.seedFiles[call.file - 1].provisions) :
                  trim(p.provision_ref) = trim(call.deduped[k].provision_ref)
                      => Len(normalizeWhitespace(call.deduped[k].content))
                             >= Len(normalizeWhitespace(p.content))

\* C21: every reference extractEuReferences returns has a year of four
\* digits (1000..9999), whichever year token the patterns accepted (2, 3 or
\* 4 digits), and its identifier is "<type>:<year>/<number>" built from that
\* year.  (Refuted by the code: normalizeEuYear adds a century to a token of
\* two digits only, so the token 016 gives the year 16.)
C21_YearHasFourDigits ==
    (call.fn = "extractEuReferences" /\ call.returned) =>
        \A k \in 1..Len(call.refs) :
            LET ref == call.refs[k]
            IN  /\ ref.year \in 1000..9999
                /\ ref.euDocumentId =
                       buildEuDocumentId(ref.type, ref.year, ref.number)

\* The lexemes that are, or hold, a word starting with one of the stems
\* implement, attua, recepi, traspos, supplement, comply, or one of the
\* phrases.
StemWords == {"in attuazione", "attuazione", "implement"}

\* C22: a reference is classified 'implements' exactly when its context
\* (ContextChars characters on each side of the match) holds a word that
\* starts with one of the implementation-verb stems or one of the phrases,
\* and 'references' otherwise.  (Refuted by the code: the expression of
\* inferReferenceType ends with \b, so a stem only counts as a whole word
\* and "attuazione" without "in" or "da'" before it is not recognized.)
C22_ImplementsIffStemInContext ==
    (call.fn = "extractEuReferences" /\ call.returned) =>
        \A k \in 1..Len(call.refs) :
            LET ref == call.refs[k]
            IN  (ref.referenceType = "implements") <=>
                    (\E j \in 1..Len(ref.referenceContext) :
                         ref.referenceContext[j] \in StemWords)


\* C23: parseCitation returns a valid result only if an expression matches
\* the whole trimmed input; a citation followed by more text is invalid.
\* (Refuted by the code: the expressions are anchored at the start only, so
\* what follows the citation is ignored.)
C23_ValidOnlyOnFullMatch ==
    (call.fn = "parseCitation" /\ call.returned /\ call.result.valid) =>
        MatchOf(call.grammar, trim(call.citation)).length
            = Len(trim(call.citation))

\* The expressions in the order (a) article, paragraph and short form,
\* (b) internal identifier, (c) named code, (d) spelled-out type with full
\* date, (e) abbreviated type with number/year.
ClaimedOrder ==
    << "COMMA_CITATION", "ID_BASED_CITATION", "CODICE_CITATION",
       "FULL_CITATION", "SHORT_CITATION" >>

Matches(name) == MatchOf(name, trim(call.citation)) # None

\* C24: the branch of parseCitation that returns is that of the first
\* expression, in the order (a)..(e), that matches; a text that both (a) and
\* (e) match is parsed by (a), and the result carries the paragraph number.
C24_FirstGrammarWins ==
    (call.fn = "parseCitation" /\ call.returned) =>
        /\ \A k \in 1..Len(ClaimedOrder) :
               (/\ Matches(ClaimedOrder[k])
                /\ \A j \in 1..(k - 1) : ~Matches(ClaimedOrder[j]))
                   => call.grammar = ClaimedOrder[k]
        /\ (\A k \in 1..Len(ClaimedOrder) : ~Matches(ClaimedOrder[k]))
               => call.grammar = ""
        /\ (Matches("COMMA_CITATION") /\ Matches("SHORT_CITATION")) =>
               /\ call.grammar = "COMMA_CITATION"
               /\ call.result.valid
               /\ call.result.comma = [v |-> "1"]

\* A paragraph-bearing short citation, which (a) and (e) both match, has
\* been parsed.
C24_Witness ==
    /\ call.fn = "parseCitation"
    /\ call.returned
    /\ Matches("COMMA_CITATION")
    /\ Matches("SHORT_CITATION")
    /\ call.result.comma # None

\* Whether the sequence part occurs in the sequence whole.
Contains(whole, part) ==
    \E i \in 0..(Len(whole) - Len(part)) :
        SubSeq(whole, i + 1, i + Len(part)) = part

\* The result is the structured invalid result: no semantic field, and a
\* message.
InvalidResult(r) ==
    /\ ~r.valid
    /\ r.error # None
    /\ r.article = None /\ r.comma = None /\ r.suffix = None
    /\ r.number = None /\ r.year = None /\ r.title = None
    /\ r.document_id = None

C26_NumberedOrTitled ==
    (call.fn = "parseCitation" /\ call.returned /\ call.result.valid) =>
        LET r == call.result
            numbered ==
                /\ r.number # None /\ r.year # None /\ r.document_id # None
                /\ r.document_id.v
                       = << r.type, "-", Decimal(r.number.v), "-",
                            Decimal(r.year.v) >>
                /\ r.title = None
            titled ==
                /\ r.title # None /\ r.type = "codice"
                /\ r.number = None /\ r.year = None /\ r.document_id = None
        IN  /\ r.article # None
            /\ numbered \/ titled
            /\ ~(numbered /\ titled)

\* A citation by title, with an ordinal suffix, has been parsed.
C26_Witness ==
    /\ call.fn = "parseCitation"
    /\ call.returned
    /\ call.result.valid
    /\ call.result.type = "codice"
    /\ call.result.suffix = [v |-> "ter"]

\* C27: formatting a valid citation of a numbered type in the full or the
\* short style and parsing the text gives a valid citation with the same
\* type, article, suffix, paragraph, number and year.  (Refuted by the
\* code: the full style names a dpr "Decreto del Presidente della
\* Repubblica" and an rd "Regio decreto", which no expression of the parser
\* accepts before "n. <number>/<year>".)
C27_RoundTrip ==
    (call.fn = "parseCitation" /\ call.returned /\ call.origin # None) =>
        LET given == call.origin.parsed
            r == call.result
        IN  /\ r.valid
            /\ r.type = given.type
            /\ r.article = given.article
            /\ r.suffix = given.suffix
            /\ r.comma = given.comma
            /\ r.number = given.number
            /\ r.year = given.year

\* validateCitation has returned for a citation that parseCitation accepts.
Validated ==
    /\ call.fn = "validateCitation"
    /\ call.returned
    /\ call.result.citation.valid

\* What the Act of a parsed citation is looked up by: its document_id, or
\* its title when it has none.
SearchTerm(parsed) ==
    IF parsed.document_id # None THEN parsed.document_id.v
    ELSE parsed.title.v

\* The text is one of the warnings.
Warned(text) ==
    \E k \in 1..Len(call.result.warnings) : call.result.warnings[k] = text

\* C28: when no Act resolves for a parsed citation, validateCitation returns
\* document_exists = FALSE and provision_exists = FALSE with exactly one
\* warning, that the document was not found, and has read neither the row
\* of an Act (its status) nor a provision; a call with an unparseable or an
\* unresolvable citation returns a result.
C28_NotFoundWithoutFurtherChecks ==
    (call.fn = "validateCitation" /\ call.returned) =>
        /\ call.result # None
        /\ ~call.result.citation.valid => ~call.result.document_exists
        /\ LET term == SearchTerm(call.result.citation)
           IN  (/\ call.result.citation.valid
                /\ \A outcome \in resolveExistingStatuteId(call.db, term) :
                       outcome.id = None) =>
                   /\ ~call.result.document_exists
                   /\ ~call.result.provision_exists
                   /\ call.result.warnings
                          = << <<"Document \"">> \o term
                                   \o <<"\" not found in database">> >>
                   /\ \A k \in 1..Len(call.queries) :
                          call.queries[k] \notin {"doc", "prov"}

\* A parsed citation of an Act that the database does not hold has been
\* validated against a database that holds other Acts.
C28_Witness ==
    /\ Validated
    /\ call.db.legal_documents # {}
    /\ ~call.result.document_exists

\* The row of the Act that the result names.
ResolvedAct ==
    CHOOSE d \in call.db.legal_documents :
        d.title = call.result.document_title.v

\* No provision of the resolved Act is stored under the cited article, with
\* or without the prefix "art", as its reference or as its section.
ProvisionAbsent ==
    LET parsed == call.result.citation
        articleRef ==
            <<parsed.article.v>>
                \o (IF parsed.suffix # None THEN <<"-", parsed.suffix.v>>
                    ELSE << >>)
    IN  \A p \in call.db.legal_provisions :
            p.document_id = ResolvedAct.id =>
                /\ p.provision_ref \notin {articleRef, <<"art">> \o articleRef}
                /\ p.section \notin {articleRef, <<"art">> \o articleRef}

\* C29: whenever the Act resolved by validateCitation has status 'repealed',
\* the warnings contain the repeal advisory, whether or not the cited
\* provision exists; a cited provision that is absent adds its own warning
\* and sets provision_exists = FALSE while document_exists stays TRUE.
C29_RepealAdvisoryAlways ==
    (Validated /\ call.result.document_exists) =>
        /\ ResolvedAct.status = "repealed" =>
               Warned(<<"This law has been repealed">>)
        /\ ProvisionAbsent =>
               /\ ~call.result.provision_exists
               /\ call.result.document_exists
               /\ \E k \in 1..Len(call.result.warnings) :
                      /\ Contains(call.result.warnings[k],
                                  <<" not found in ">>)
                      /\ Contains(call.result.warnings[k],
                                  <<call.result.citation.article.v>>)

\* A citation of a provision that a repealed Act does not have has been
\* validated.
C29_Witness ==
    /\ Validated
    /\ call.result.document_exists
    /\ ResolvedAct.status = "repealed"
    /\ ProvisionAbsent

\* The Acts that match inputId at the stages of the resolution, in their
\* order: by identifier, by normalized identifier, by title or short name
\* whatever the case, by a title (or, with shortNames, a title or a short
\* name) that holds inputId.
Stages(db, inputId, shortNames) ==
    LET Lower(text) == [k \in 1..Len(text) |-> Lexeme(text[k]).lower]
        Named(d) ==
            {d.title} \cup (IF d.short_name # None THEN {d.short_name.v}
                            ELSE {})
    IN  << { d \in db.legal_documents : d.id = inputId },
           { d \in db.legal_documents :
               [v |-> d.id] = normalizeDocumentIdentifier(inputId) },
           { d \in db.legal_documents :
               \E name \in Named(d) : Lower(name) = Lower(inputId) },
           { d \in db.legal_documents :
               \E name \in (IF shortNames THEN Named(d) ELSE {d.title}) :
                   Contains(Lower(name), Lower(inputId)) } >>

\* id, None for no Act, is what the stages allow for inputId: the Act of
\* the first stage that matches any, the one with the shortest title when
\* that is the last stage.
ResolvesTo(db, inputId, shortNames, id) ==
    LET stages == Stages(db, inputId, shortNames)
        matching == { k \in 1..4 : stages[k] # {} }
    IN  IF matching = {} THEN id = None
        ELSE LET first == CHOOSE k \in matching : \A j \in matching : k <= j
             IN  \E d \in stages[first] :
                     /\ id = [v |-> d.id]
                     /\ first = 4 =>
                            \A e \in stages[4] :
                                LENGTH(d.title) <= LENGTH(e.title)

\* The resolution that has returned, of resolveExistingStatuteId or within
\* validateCitation, is what the stages allow.
ResolvedByStages(shortNames) ==
    /\ (call.fn = "resolveExistingStatuteId" /\ call.returned) =>
           ResolvesTo(call.db, call.input, shortNames, call.result)
    /\ Validated =>
           \E id \in {None} \cup { [v |-> d.id] :
                                     d \in call.db.legal_documents } :
               /\ ResolvesTo(call.db, SearchTerm(call.result.citation),
                             shortNames, id)
               /\ call.result.document_exists = (id # None)
               /\ id # None => ResolvedAct.id = id.v

\* C30 as claimed: the Act is resolved by exact identifier, then normalized
\* identifier, then case-insensitive title or short name, then substring
\* of the title; a match at an earlier stage wins over any match at a later
\* stage, and among several substring matches the Act with the shortest
\* title is chosen.  (Refuted by the code: the last statement also selects
\* the Acts whose short name holds the input.)
C30_SubstringOfTitle == ResolvedByStages(FALSE)

\* C30, amended: the last stage is a substring match on the title or the
\* short name; a match at an earlier stage wins over any match at a later
\* stage, and among several matches of the last stage the Act with the
\* shortest title is chosen.
C30_EarliestStageWins == ResolvedByStages(TRUE)

\* An identifier has been resolved to an Act while another Act of the
\* database matches it at a later stage.
C30_Witness ==
    /\ call.fn = "resolveExistingStatuteId"
    /\ call.returned
    /\ call.result # None
    /\ \E k \in 1..4 :
           \E d \in Stages(call.db, call.input, TRUE)[k] :
               d.id # call.result.v

\* C40: every valid result of parseCitation has an instrument type of the
\* known set, and no document_id that begins with "unknown".  (Refuted by
\* the code: the expressions accept "L", "D.P.R" and "R.D" without the final
\* full stop, which TYPE_MAP does not hold.)
C40_KnownInstrumentType ==
    (call.fn = "parseCitation" /\ call.returned /\ call.result.valid) =>
        /\ call.result.type
               \in {"legge", "dlgs", "dl", "dpr", "rd", "codice"}
        /\ call.result.document_id # None =>
               call.result.document_id.v[1] # "unknown"

\* The Acts main has gone past: the first idx - 1 of the pending set.
Handled == {run.toProcess[k] : k \in 1..(run.idx - 1)}

\* C39: throughout a run processed = skipped + ingested + failed, every Act
\* main has gone past is counted once, as skipped or as processed, and when
\* the run ends processed is the size of the pending set.
C39_CountersAddUp ==
    /\ run.processed = run.skipped + run.ingestedCount + run.failed
    /\ run.processed = run.idx - 1
    /\ audit.skippedActs \cap audit.written = {}
    /\ audit.skippedActs \cup audit.written = Handled
    /\ run.skipped = Cardinality(audit.skippedActs)
    /\ run.ingestedCount + run.failed = Cardinality(audit.written)
    /\ run.pc \in {"done", "exit"} => run.processed = Len(run.toProcess)

C39_Witness ==
    /\ run.pc = "done"
    /\ run.skipped = 1
    /\ run.failed = 1
    /\ Len(run.toProcess) = 2

\* C38: once an Act has been handled, skipped or processed, its census
\* entry is marked ingested exactly when its seed holds a provision; the
\* provision_count of a processed Act is the number of provisions of the
\* seed written for it; and summary.ingested is the number of entries that
\* are marked ingested.
C38_CensusAgreesWithSeeds ==
    /\ \A law \in Handled :
          census.laws[law].ingested = (Len(seeds[law].provisions) > 0)
    /\ \A law \in audit.written :
          census.laws[law].provision_count = Len(seeds[law].provisions)
    /\ Handled # {} => census.summary.ingested = CountIngested(census.laws)

C38_Witness ==
    /\ \E law \in audit.skippedActs :
          /\ ~censusDisk.laws[law].ingested
          /\ census.laws[law].ingested
    /\ \E law \in audit.written :
          /\ Len(seeds[law].provisions) = 0
          /\ ~census.laws[law].ingested
    /\ census.summary.ingested = 1

\* The Act that is being crawled, if any.
Crawled == IF crawl.phase = "idle" THEN {} ELSE {crawl.law}

\* C36: Acts are processed one after another, and the seed of an Act is
\* written once, when its crawl and its parse are over.  A request has only
\* gone out for Acts whose seed has been written and for the Act that is
\* being crawled, whose seed has not been written yet; no call is pending
\* between two Acts; the seeds change only in the step that ends a crawl,
\* with no fetch pending, and only the seed of the crawled Act; and the step
\* that ends a crawl writes that seed.
C36_OneActAtATime ==
    /\ [](/\ wire.requested \subseteq audit.written \cup Crawled
          /\ Crawled \cap audit.written = {}
          /\ Crawled = {} => \A s \in Slots : callers[s].pc = "idle")
    /\ [][/\ seeds' # seeds =>
                /\ crawl.phase # "idle" /\ crawl'.phase = "idle"
                /\ \A s \in Slots : callers[s].pc \in {"idle", "done"}
                /\ \A law \in DOMAIN seeds :
                      law # crawl.law => seeds'[law] = seeds[law]
          /\ (crawl.phase # "idle" /\ crawl'.phase = "idle") =>
                /\ seeds'[crawl.law].exists
                /\ audit'.written = audit.written \cup {crawl.law}]_vars

C36_Witness ==
    /\ crawl.phase = "batch"
    /\ \E s \in Slots : callers[s].pc = "inflight"
    /\ crawl.law \in wire.requested
    /\ \E law \in audit.written :
          /\ law \in wire.requested
          /\ Len(seeds[law].provisions) = 2

\* The calls of fetchWithSession that have been started and have not
\* settled, and those that have been started.
Pending == {s \in Slots : callers[s].pc \notin {"idle", "done"}}
Started == {s \in Slots : callers[s].pc # "idle"}

\* C35: during the crawl of an Act at most ARTICLE_CONCURRENCY article
\* fetches are pending at a time, all of them for different URLs of the one
\* batch that follows the URLs already tallied; and a fetch is only started
\* when no fetch is pending, so that a batch begins when the batch before
\* it has settled whole.
C35_BoundedBatches ==
    /\ [](crawl.phase = "batch" =>
             /\ Cardinality(Pending) <= ARTICLE_CONCURRENCY
             /\ \A s \in Started :
                   /\ callers[s].url > crawl.i
                   /\ callers[s].url <= crawl.i + ARTICLE_CONCURRENCY
                   /\ callers[s].url <= crawl.articleUrls
             /\ \A s, t \in Started :
                   s # t => callers[s].url # callers[t].url)
    /\ [][(\E s \in Slots : /\ callers'[s].pc \notin {"idle", "done"}
                            /\ \/ callers[s].pc \in {"idle", "done"}
                               \/ callers'[s].url # callers[s].url)
              => Pending = {}]_vars

C35_Witness ==
    /\ crawl.phase = "batch"
    /\ crawl.i = ARTICLE_CONCURRENCY
    /\ crawl.failed > 0
    /\ Len(crawl.results) > 0
    /\ Pending # {}

\* The articles whose provision the parse loop keeps: those that were
\* parsed and whose reference no article before them has.
FirstOfRef(parsed) ==
    {k \in 1..Len(parsed) :
        /\ parsed[k] # None
        /\ \A j \in 1..(k - 1) :
              \/ parsed[j] = None
              \/ parsed[j].provision_ref # parsed[k].provision_ref}

\* C37: the articles fetchAllArticles returns are in the order of the URL
\* list (URLs are numbered in that order), and the provisions of the seed
\* are in the order of the articles they were parsed from, whatever the
\* order in which the fetches of a batch were answered.
C37_UrlListOrder ==
    LET lc == audit.lastCrawl
        kept == FirstOfRef(lc.parsed)
        provisions == seeds[lc.law].provisions
    IN  (lc.law # 0 /\ ~lc.threw) =>
            /\ \A i, j \in 1..Len(lc.results) :
                  i < j => lc.results[i] < lc.results[j]
            /\ Len(lc.parsed) = Len(lc.results)
            /\ Len(provisions) = Cardinality(kept)
            /\ \A k \in kept :
                  provisions[Cardinality({i \in kept : i <= k})] = lc.parsed[k]

\* The fetch of the first article was retried, so that it was answered
\* after the fetch of the second; both articles gave a provision.
C37_Witness ==
    LET lc == audit.lastCrawl
    IN  /\ lc.law # 0
        /\ lc.results = << 1, 2 >>
        /\ lc.attempts[1] > 1
        /\ lc.attempts[2] = 1
        /\ Len(seeds[lc.law].provisions) = 2
        /\ seeds[lc.law].provisions[1] = lc.parsed[1]

\* C31: for every fetched article the structured strategy is tried first
\* and the attachment strategy only when the structured one gives nothing;
\* what is recorded is the result of the first strategy that gives a
\* provision; and an article of which no strategy makes a provision is
\* passed over: the loop goes on and the seed is written.
C31_FirstStrategyThatSucceeds ==
    call.fn = "ingestAct" =>
        /\ Len(call.trace) = call.article - 1
        /\ \A k \in 1..Len(call.trace) :
              LET Tried(t, structured, attachment) ==
                      /\ t.tried[1] = "structured"
                      /\ Len(t.tried) = IF structured = None THEN 2 ELSE 1
                      /\ Len(t.tried) = 2 => t.tried[2] = "attachment"
                      /\ t.parsed = IF structured # None THEN structured
                                    ELSE attachment
              IN  Tried(call.trace[k], parseArticleHtml(call.articles[k]),
                        parseAttachmentArticleHtml(call.articles[k]))
        /\ call.provisions
               = CollectProvisions([k \in 1..Len(call.trace) |->
                                       call.trace[k].parsed], 1, << >>)
        /\ call.returned =>
               /\ Len(call.trace) = Len(call.articles)
               /\ call.seed = [v |-> call.provisions]

\* An Act of two articles: the first is parsed by the attachment strategy
\* after the structured one gave nothing, the second is passed over.
C31_Witness ==
    /\ call.fn = "ingestAct"
    /\ call.returned
    /\ Len(call.trace) = 2
    /\ call.trace[1].tried = <<"structured", "attachment">>
    /\ call.trace[1].parsed # None
    /\ call.trace[2].parsed = None
    /\ Len(call.seed.v) = 1

\* C32: no provision that a strategy produces, and so no provision of a
\* seed, has a body that is empty or shorter than 5 characters.  (Refuted
\* by the code: the parser of a whole document only drops an article whose
\* body is empty.)
C32_BodyAtLeastFiveCharacters ==
    /\ call.fn = "ingestAct" =>
           \A k \in 1..Len(call.trace) :
               call.trace[k].parsed # None =>
                   TextLength(call.trace[k].parsed.content) >= 5
    /\ (call.fn \in {"ingestAct", "parseNormattivaHtml"} /\ call.returned) =>
           \A k \in 1..Len(call.seed.v) :
               /\ Len(call.seed.v[k].content) > 0
               /\ TextLength(call.seed.v[k].content) >= 5

\* The texts of the numbered blocks of a page, from the lexeme `from` on:
\* what the span art_text_in_comma of each block holds, cleaned, without
\* the texts that are empty then.
RECURSIVE CommaTexts(_, _)
CommaTexts(html, from) ==
    LET span == Element(html, "<span class=\"art_text_in_comma\">",
                        "</span>", from)
        text == cleanAmendmentMarkers(stripHtml(decodeEntities(span.inner)))
    IN  IF ~span.found THEN << >>
        ELSE (IF Len(text) = 0 THEN << >> ELSE <<text>>)
                 \o CommaTexts(html, span.end + 1)

\* C33: the body of an article made of numbered blocks is the texts of the
\* blocks joined by single spaces, without the paragraph numbers and the
\* bracket markers, a block whose cleaned text is empty or only a marker
\* being left out.  (Refuted by the code: the text of a block is taken from
\* the whole block, the span of the paragraph number included.)
C33_ParagraphsJoinedWithoutLabels ==
    call.fn = "ingestAct" =>
        \A k \in 1..Len(call.trace) :
            LET Joined(html, t) ==
                    (/\ t.tried = <<"structured">>
                     /\ IndexOfFrom(html,
                                    "<div class=\"art-commi-div-akn\">", 1) # 0
                     /\ IndexOfFrom(html,
                                    "<span class=\"art-just-text-akn\">", 1)
                            = 0)
                        => t.parsed.content
                               = Join(CommaTexts(html, 1), <<" ">>)
            IN  Joined(call.articles[k], call.trace[k])

\* C34: the provision_ref of every provision of a seed is the lower-case
\* text "art" + reference token and its section is the token, so that the
\* key of the validator, "art" + article [+ "-" + lower-case suffix], finds
\* the provision when its article is cited, whatever the case of the suffix
\* in the markup.  (Refuted by the code: the token is stored in the case of
\* the markup.)
C34_LowercaseReference ==
    (call.fn \in {"ingestAct", "parseNormattivaHtml"} /\ call.returned) =>
        \A k \in 1..Len(call.seed.v) :
            LET Stored(p, cited) ==
                    LET articleRef ==
                            IF cited.suffix # None
                            THEN <<cited.article.v, "-", cited.suffix.v>>
                            ELSE <<cited.article.v>>
                        provRef == <<"art">> \o articleRef
                    IN  /\ p.provision_ref = provRef
                        /\ \/ p.provision_ref = provRef
                           \/ p.section = articleRef
                           \/ p.provision_ref = articleRef
                           \/ p.section = provRef
            IN  Stored(call.seed.v[k], parseArticleRef(call.seed.v[k].section))

====
